---- MODULE Spec2Model ----
(***************************************************************************)
(* Model of the BMS scraper pipeline:                                      *)
(*   - BMSScraper.scrapeRegistrationDetails (row loop, name resolution,    *)
(*     complimentary expansion, second pass filling group purchases),      *)
(*   - calculateDashboardStats (member matching loop, previous-participant *)
(*     phone map, per-registration counters, snapshot save).               *)
(* Text is modelled as a sequence of one-character strings, so that the    *)
(* string operations of the source (trim, split, toLowerCase, replace,     *)
(* slice) are computed and not assumed.                                    *)
(***************************************************************************)
EXTENDS Integers, Sequences, FiniteSets, TLC

VARIABLES
    \* ---- BMSScraper.scrapeRegistrationDetails ----
    rows,                 \* data rows of the report table (each a sequence of cell texts)
    rowIdx,               \* position of the rows.each loop
    scraped,              \* the scraper's local array `registrations`
    totalRowsProcessed,
    skippedRows,
    filledCount,
    spc,                  \* position inside scrapeRegistrationDetails
    \* ---- calculateDashboardStats ----
    registrationDetails,  \* collection registrationDetails
    arpitGroupMembers,    \* collection arpitGroupMembers
    previousyearparticipants, \* collection previousyearparticipants
    dashboardStats,       \* collection dashboardStats
    registrations,        \* fetched arrays of one run
    arpitMembers,
    previousParticipants,
    memberIdx,            \* position of the member matching loop
    arpitMemberRegistrations, \* Map registrationId -> member (index in arpitMembers)
    usedRegistrationIds,  \* Set of registrationId
    previousPhoneMap,     \* keys of Map phone10 -> participant
    flags,                \* isMumukshu, arpitMember and isReturning of each registration
    stats,                \* the stats object of the run
    cpc,                  \* position inside calculateDashboardStats
    runsDone,             \* completed runs of calculateDashboardStats
    lastLinks,            \* links of the previous completed run
    eventSummaries,       \* collection eventSummaries
    procs                 \* the scraper processes: position, scraped lists, exit code

scrapeVars == <<rows, rowIdx, scraped, totalRowsProcessed, skippedRows, filledCount, spc>>
storeVars == <<registrationDetails, arpitGroupMembers, previousyearparticipants>>
runVars == <<registrations, arpitMembers, previousParticipants, memberIdx,
             arpitMemberRegistrations, usedRegistrationIds, previousPhoneMap, flags, stats>>
procVars == <<eventSummaries, procs>>
statsVars == <<storeVars, dashboardStats, runVars, cpc, runsDone, lastLinks, procVars>>
vars == <<scrapeVars, statsVars>>

(***************************************************************************)
(* Bounds of the model.                                                    *)
(***************************************************************************)
MaxRows == 2
MaxRegs == 2
MaxMembers == 2
MaxRuns == 2
MaxTotal == 32
MaxMatchRegs == 3

(***************************************************************************)
(* Text: the JavaScript string operations the source uses.                 *)
(***************************************************************************)
Str0 == << >>

UpperChars == <<"A","B","C","D","E","F","G","H","I","J","K","L","M",
                "N","O","P","Q","R","S","T","U","V","W","X","Y","Z">>
LowerChars == <<"a","b","c","d","e","f","g","h","i","j","k","l","m",
                "n","o","p","q","r","s","t","u","v","w","x","y","z">>
DigitChars == <<"0","1","2","3","4","5","6","7","8","9">>

IsUpper(c) == \E i \in 1..Len(UpperChars) : UpperChars[i] = c
IsLower(c) == \E i \in 1..Len(LowerChars) : LowerChars[i] = c
IsLetter(c) == IsUpper(c) \/ IsLower(c)
IsDigit(c) == \E i \in 1..Len(DigitChars) : DigitChars[i] = c
DigitVal(c) == (CHOOSE i \in 1..Len(DigitChars) : DigitChars[i] = c) - 1
IsSpace(c) == c = " "

LowerChar(c) ==
    IF IsUpper(c) THEN LowerChars[CHOOSE i \in 1..Len(UpperChars) : UpperChars[i] = c] ELSE c

toLowerCase(s) == [i \in 1..Len(s) |-> LowerChar(s[i])]

Min(a, b) == IF a < b THEN a ELSE b
Max(a, b) == IF a > b THEN a ELSE b

\* String.prototype.trim
trim(s) ==
    IF \A i \in 1..Len(s) : IsSpace(s[i]) THEN Str0
    ELSE LET a == CHOOSE i \in 1..Len(s) : ~IsSpace(s[i]) /\ \A j \in 1..(i-1) : IsSpace(s[j])
             b == CHOOSE i \in 1..Len(s) : ~IsSpace(s[i]) /\ \A j \in (i+1)..Len(s) : IsSpace(s[j])
         IN SubSeq(s, a, b)

\* String.prototype.split with a one-character separator
RECURSIVE split(_, _)
split(s, c) ==
    IF \A i \in 1..Len(s) : s[i] # c THEN <<s>>
    ELSE LET i == CHOOSE i \in 1..Len(s) : s[i] = c /\ \A j \in 1..(i-1) : s[j] # c
         IN <<SubSeq(s, 1, i-1)>> \o split(SubSeq(s, i+1, Len(s)), c)

\* Array.prototype.join with a one-character separator
RECURSIVE join(_, _)
join(parts, c) ==
    IF Len(parts) = 0 THEN Str0
    ELSE IF Len(parts) = 1 THEN parts[1]
    ELSE parts[1] \o <<c>> \o join(Tail(parts), c)

\* String.prototype.includes / startsWith / substring(0, n) / slice(-n)
includes(s, sub) == \E i \in 0..(Len(s) - Len(sub)) : SubSeq(s, i+1, i+Len(sub)) = sub
startsWith(s, p) == Len(s) >= Len(p) /\ SubSeq(s, 1, Len(p)) = p
substring0(s, n) == SubSeq(s, 1, Min(n, Len(s)))
sliceLast(s, n) == SubSeq(s, Max(1, Len(s) - n + 1), Len(s))

\* replace(/X/g, '') for a set of characters
RECURSIVE removeChars(_, _)
removeChars(s, cs) ==
    IF Len(s) = 0 THEN Str0
    ELSE (IF s[1] \in cs THEN Str0 ELSE <<s[1]>>) \o removeChars(Tail(s), cs)

\* decimal text of a natural number (template literal `${n}`)
RECURSIVE numberToString(_)
numberToString(n) ==
    IF n < 10 THEN <<DigitChars[n+1]>>
    ELSE numberToString(n \div 10) \o <<DigitChars[(n % 10) + 1]>>

\* value of the leading run of digits of a text (parseFloat on the integer texts
\* the report holds); -1 stands for NaN
RECURSIVE digitsValue(_, _)
digitsValue(s, acc) ==
    IF Len(s) = 0 \/ ~IsDigit(s[1]) THEN acc
    ELSE digitsValue(Tail(s), acc * 10 + DigitVal(s[1]))

parseFloat(s) ==
    LET t == trim(s) IN
    IF Len(t) = 0 \/ ~IsDigit(t[1]) THEN -1 ELSE digitsValue(t, 0)

\* parseInt(String(x)): leading blanks are skipped, then an optional sign, then the
\* leading run of digits; NaN when no digit follows
parseInt(s) ==
    LET t == trim(s)
        negative == Len(t) > 0 /\ t[1] = "-"
        body == IF Len(t) > 0 /\ t[1] \in {"-", "+"} THEN Tail(t) ELSE t
    IN IF Len(body) = 0 \/ ~IsDigit(body[1]) THEN [isNaN |-> TRUE, value |-> 0]
       ELSE [isNaN |-> FALSE,
             value |-> IF negative THEN 0 - digitsValue(body, 0) ELSE digitsValue(body, 0)]

\* BMSScraper.parseNumber: parseFloat(text.replace(/,/g, '').trim()) || 0
parseNumber(text) ==
    LET v == parseFloat(trim(removeChars(text, {","}))) IN
    IF v = -1 THEN 0 ELSE v


(***************************************************************************)
(* Texts used by the source.                                               *)
(***************************************************************************)
GuestPrefix == <<"G","u","e","s","t","_">>
CompSuffix == <<"_","c","o","m","p","_">>
ComplimentaryMarker == <<"c","o","m","p","l","i","m","e","n","t","a","r","y">>
DefaultEventName == <<"G","l","o","b","a","l"," ","Y","o","u","t","h"," ",
                      "F","e","s","t","i","v","a","l"," ","2","0","2","5">>
ProtectedMarkup == <<"[","e","m","a","i","l","&","#","1","6","0",";",
                     "p","r","o","t","e","c","t","e","d","]">>
ProtectedSentinel == <<"[","e","m","a","i","l"," ","p","r","o","t","e","c","t","e","d","]">>

MinCells == 45
GuestIdChars == 8

(***************************************************************************)
(* BMSScraper.extractProtectedEmail                                        *)
(***************************************************************************)
IsEmailLocalChar(c) == IsLetter(c) \/ IsDigit(c) \/ c \in {".", "_", "%", "+", "-"}
IsEmailDomainChar(c) == IsLetter(c) \/ IsDigit(c) \/ c \in {".", "-"}

\* <<i, k, e>>: a match of /[a-zA-Z0-9._%+-]+@[a-zA-Z0-9.-]+\.[a-zA-Z]{2,}/ starts at i,
\* has its "@" at k and its last "." at e+1
EmailMatches(s) ==
    {m \in (1..Len(s)) \X (1..Len(s)) \X (1..Len(s)) :
        /\ m[1] < m[2] /\ m[2] < m[3] /\ m[3] + 3 <= Len(s)
        /\ \A j \in m[1]..(m[2]-1) : IsEmailLocalChar(s[j])
        /\ s[m[2]] = "@"
        /\ \A j \in (m[2]+1)..m[3] : IsEmailDomainChar(s[j])
        /\ s[m[3]+1] = "."
        /\ IsLetter(s[m[3]+2]) /\ IsLetter(s[m[3]+3])}

\* String.prototype.match: the leftmost match, each quantifier greedy
EmailMatch(s) ==
    LET ms == EmailMatches(s)
        i == CHOOSE i \in {m[1] : m \in ms} : \A m \in ms : i <= m[1]
        k == CHOOSE k \in {m[2] : m \in {x \in ms : x[1] = i}} : TRUE
        e == CHOOSE e \in {m[3] : m \in {x \in ms : x[1] = i}} :
                 \A m \in {x \in ms : x[1] = i} : m[3] <= e
        last == CHOOSE l \in (e+3)..Len(s) :
                  /\ \A j \in (e+2)..l : IsLetter(s[j])
                  /\ (l = Len(s) \/ ~IsLetter(s[l+1]))
    IN SubSeq(s, i, last)

extractProtectedEmail(emailHtml) ==
    IF trim(emailHtml) = Str0 THEN Str0
    ELSE IF includes(emailHtml, ProtectedMarkup) THEN ProtectedSentinel
    ELSE IF EmailMatches(emailHtml) # {} THEN EmailMatch(emailHtml)
    ELSE trim(emailHtml)

(***************************************************************************)
(* BMSScraper.scrapeRegistrationDetails: one data row                      *)
(***************************************************************************)
\* $(cells[i]).text(): the text of cell i, empty when the row has no cell i
CellText(cells, i) == IF i < Len(cells) THEN cells[i+1] ELSE Str0
\* $(cells[i]).text().trim()
Cell(cells, i) == trim(CellText(cells, i))

\* x || d for a number x
OrNum(x, d) == IF x = 0 THEN d ELSE x

\* ticketQty, ticketAmt, seatInfo and the complimentary test
TicketQtyOf(cells) == OrNum(parseNumber(CellText(cells, 10)), 1)
TicketAmtOf(cells) == OrNum(parseNumber(CellText(cells, 11)), 0)

isComplimentary(cells) ==
    \/ TicketAmtOf(cells) = 0
    \/ /\ Cell(cells, 9) # Str0
       /\ includes(toLowerCase(Cell(cells, 9)), ComplimentaryMarker)

\* firstName, lastName and customerName from the first_name, last_name and full_name cells
NameFromCells(cells) ==
    LET firstName0 == Cell(cells, 20)
        lastName0 == Cell(cells, 21)
        fullNameField == Cell(cells, 45)
        useFull == (firstName0 = Str0 /\ lastName0 = Str0) /\ fullNameField # Str0
        nameParts == split(fullNameField, " ")
        firstName == IF useFull THEN nameParts[1] ELSE firstName0
        rest == join(Tail(nameParts), " ")
        lastName == IF useFull THEN (IF rest = Str0 THEN firstName ELSE rest) ELSE lastName0
    IN [firstName |-> firstName,
        lastName |-> lastName,
        customerName |-> trim(firstName \o <<" ">> \o lastName),
        phoneNumber |-> Cell(cells, 24)]

\* the complimentary branch: FullName / MobileNumber replace an empty or Guest_ name
ComplimentaryName(cells, nm) ==
    LET fullNameFromComp == Cell(cells, 49)
        mobileFromComp == Cell(cells, 50)
        compBranch == /\ isComplimentary(cells)
                      /\ \/ nm.firstName = Str0
                         \/ startsWith(nm.firstName, GuestPrefix)
                         \/ nm.customerName = Str0
        cleanName == trim(split(fullNameFromComp, "(")[1])
        useComp == compBranch /\ fullNameFromComp # Str0 /\ cleanName # Str0
        compParts == split(cleanName, " ")
    IN [firstName |-> IF useComp THEN compParts[1] ELSE nm.firstName,
        lastName |-> IF useComp THEN join(Tail(compParts), " ") ELSE nm.lastName,
        customerName |-> IF useComp THEN cleanName ELSE nm.customerName,
        phoneNumber |-> IF compBranch /\ mobileFromComp # Str0 /\ nm.phoneNumber = Str0
                        THEN mobileFromComp ELSE nm.phoneNumber]

\* a plausible slip: the fallback label is the bare Trans_Id prefix, without "Guest_"
GuestFallbackBareId(cells, nm) ==
    IF nm.customerName = Str0
    THEN [firstName |-> substring0(Cell(cells, 2), GuestIdChars),
          lastName |-> Str0,
          customerName |-> trim(substring0(Cell(cells, 2), GuestIdChars) \o <<" ">> \o Str0),
          phoneNumber |-> nm.phoneNumber]
    ELSE nm

\* missing names: the fallback identifier Guest_<first 8 characters of Trans_Id>
GuestFallback(cells, nm) ==
    IF nm.customerName = Str0
    THEN [firstName |-> GuestPrefix \o substring0(Cell(cells, 2), GuestIdChars),
          lastName |-> Str0,
          customerName |-> trim(GuestPrefix \o substring0(Cell(cells, 2), GuestIdChars)
                                \o <<" ">> \o Str0),
          phoneNumber |-> nm.phoneNumber]
    ELSE nm

\* firstName, lastName, customerName and phoneNumber as they stand when baseRecord is built
ResolveName(cells) == GuestFallback(cells, ComplimentaryName(cells, NameFromCells(cells)))

baseRecord(cells) ==
    LET nm == ResolveName(cells) IN
    [Trans_Id |-> Cell(cells, 2),
     Bkg_Commit |-> Cell(cells, 3),
     Trans_Date |-> Cell(cells, 4),
     Cinema_Name |-> Cell(cells, 5),
     Event_Name |-> IF Cell(cells, 6) = Str0 THEN DefaultEventName ELSE Cell(cells, 6),
     Show_Date_Disp |-> Cell(cells, 7),
     Ticketwise_Qty |-> parseNumber(CellText(cells, 8)),
     Seat_Info |-> Cell(cells, 9),
     Ticket_Qty |-> 1,
     Ticket_Amt |-> TicketAmtOf(cells),
     Item_Desc |-> Cell(cells, 12),
     ItemWise_Qty |-> parseNumber(CellText(cells, 13)),
     ItemWise_Amt |-> parseNumber(CellText(cells, 14)),
     Inv_Qty |-> parseNumber(CellText(cells, 15)),
     Inv_Amt |-> parseNumber(CellText(cells, 16)),
     Additional_Desc |-> Cell(cells, 17),
     Add_strAmt |-> parseNumber(CellText(cells, 18)),
     Add_Charges |-> parseNumber(CellText(cells, 19)),
     first_name |-> nm.firstName,
     last_name |-> nm.lastName,
     age |-> OrNum(parseNumber(CellText(cells, 22)), parseNumber(CellText(cells, 53))),
     primary_phoneNo |-> nm.phoneNumber,
     primary_email |-> extractProtectedEmail(Cell(cells, 25)),
     full_name |-> Cell(cells, 45),
     FullName |-> Cell(cells, 49),
     MobileNumber |-> Cell(cells, 50),
     customerName |-> nm.customerName,
     phone |-> nm.phoneNumber,
     email |-> extractProtectedEmail(Cell(cells, 25)),
     quantity |-> 1,
     amount |-> TicketAmtOf(cells)]

\* a plausible slip: the complimentary test is dropped from the expansion
entriesToCreateAnyRow(cells) ==
    IF TicketQtyOf(cells) > 1 THEN TicketQtyOf(cells) ELSE 1

entriesToCreate(cells) ==
    IF isComplimentary(cells) /\ TicketQtyOf(cells) > 1 THEN TicketQtyOf(cells) ELSE 1

\* a plausible slip: the suffix is added to every entry, single entries included
EntryRecordAlwaysSuffixed(cells, entryIndex) ==
    LET base == baseRecord(cells)
    IN [f \in DOMAIN base \cup {"registrationId"} |->
            IF f = "registrationId"
            THEN Cell(cells, 2) \o CompSuffix \o numberToString(entryIndex + 1)
            ELSE base[f]]

\* the record of entry entryIndex (0-based) of a row
EntryRecord(cells, entryIndex) ==
    LET transId == Cell(cells, 2)
        registrationId ==
            IF entriesToCreate(cells) > 1
            THEN transId \o CompSuffix \o numberToString(entryIndex + 1)
            ELSE transId
        base == baseRecord(cells)
    IN [f \in DOMAIN base \cup {"registrationId"} |->
            IF f = "registrationId" THEN registrationId ELSE base[f]]

\* the records one row with at least 45 cells pushes, in order
RowEntries(cells) == [k \in 1..entriesToCreate(cells) |-> EntryRecord(cells, k - 1)]

(***************************************************************************)
(* BMSScraper.scrapeRegistrationDetails: second pass (group purchases)     *)
(***************************************************************************)
fieldsToFill == {"Trans_Date", "Cinema_Name", "Event_Name", "Show_Date_Disp",
                 "Ticketwise_Qty", "Seat_Info", "Ticket_Qty", "Ticket_Amt",
                 "Item_Desc", "ItemWise_Qty", "ItemWise_Amt", "Inv_Qty", "Inv_Amt",
                 "Additional_Desc", "Add_strAmt", "Add_Charges", "Bkg_Commit"}

\* the fields of a record that hold numbers (the others hold text)
NumberFields == {"Ticketwise_Qty", "Ticket_Qty", "Ticket_Amt", "ItemWise_Qty", "ItemWise_Amt",
                 "Inv_Qty", "Inv_Amt", "Add_strAmt", "Add_Charges", "age", "quantity", "amount"}

\* !person[field] || person[field] === '' || person[field] === 0
IsMissing(person, field) ==
    IF field \in NumberFields THEN person[field] = 0 ELSE person[field] = Str0

\* transactionGroups[transId]: the positions of the records with that Trans_Id, in order
transactionGroup(regs, transId) == {j \in 1..Len(regs) : regs[j].Trans_Id = transId}

\* the predicate of group.find
HasCompleteDetails(person) ==
    /\ person.Trans_Date # Str0 /\ person.Cinema_Name # Str0 /\ person.Event_Name # Str0
    /\ person.Show_Date_Disp # Str0 /\ person.Ticket_Qty > 0

\* a plausible slip: the primary holder is always the first record of the group
primaryHolderFirstOfGroup(regs, group) ==
    CHOOSE j \in group : \A k \in group : j <= k

\* position of the primary holder of a group: group.find(...) || group[0]
primaryHolder(regs, group) ==
    LET complete == {j \in group : HasCompleteDetails(regs[j])}
        first(S) == CHOOSE j \in S : \A k \in S : j <= k
    IN IF complete # {} THEN first(complete) ELSE first(group)

\* a plausible slip: the fields are copied without the test for a missing value
FillPersonOverwrite(regs, i) ==
    LET group == transactionGroup(regs, regs[i].Trans_Id)
        p == primaryHolder(regs, group)
    IN IF Cardinality(group) > 1 /\ i # p
       THEN [f \in DOMAIN regs[i] |-> IF f \in fieldsToFill THEN regs[p][f] ELSE regs[i][f]]
       ELSE regs[i]

\* the record at position i after the pass
FillPerson(regs, i) ==
    LET group == transactionGroup(regs, regs[i].Trans_Id)
        p == primaryHolder(regs, group)
    IN IF Cardinality(group) > 1 /\ i # p
       THEN [f \in DOMAIN regs[i] |->
                IF f \in fieldsToFill /\ IsMissing(regs[i], f) THEN regs[p][f] ELSE regs[i][f]]
       ELSE regs[i]

\* hasEmptyFields of the person at position i
hasEmptyFields(regs, i) ==
    LET group == transactionGroup(regs, regs[i].Trans_Id)
    IN /\ Cardinality(group) > 1
       /\ i # primaryHolder(regs, group)
       /\ \E f \in fieldsToFill : IsMissing(regs[i], f)

SecondPassRecords(regs) == [i \in 1..Len(regs) |-> FillPerson(regs, i)]

(***************************************************************************)
(* Actions of scrapeRegistrationDetails                                    *)
(***************************************************************************)
\* a plausible slip (the behaviour before the form change was handled): a row whose
\* name cells are all empty is skipped
ParseRowSkippingNameless ==
    /\ spc = "rows"
    /\ rowIdx <= Len(rows)
    /\ LET cells == rows[rowIdx] IN
         /\ totalRowsProcessed' = totalRowsProcessed + 1
         /\ IF Len(cells) < MinCells \/ NameFromCells(cells).customerName = Str0
            THEN /\ skippedRows' = skippedRows + 1
                 /\ scraped' = scraped
            ELSE /\ skippedRows' = skippedRows
                 /\ scraped' = scraped \o RowEntries(cells)
    /\ rowIdx' = rowIdx + 1
    /\ UNCHANGED <<rows, filledCount, spc, statsVars>>

\* one iteration of rows.each over the data rows
ParseRow ==
    /\ spc = "rows"
    /\ rowIdx <= Len(rows)
    /\ LET cells == rows[rowIdx] IN
         /\ totalRowsProcessed' = totalRowsProcessed + 1
         /\ IF Len(cells) < MinCells
            THEN /\ skippedRows' = skippedRows + 1
                 /\ scraped' = scraped
            ELSE /\ skippedRows' = skippedRows
                 /\ scraped' = scraped \o RowEntries(cells)
    /\ rowIdx' = rowIdx + 1
    /\ UNCHANGED <<rows, filledCount, spc, statsVars>>

\* the second pass over the parsed records, and the return
SecondPass ==
    /\ spc = "rows"
    /\ rowIdx > Len(rows)
    /\ scraped' = SecondPassRecords(scraped)
    /\ filledCount' = Cardinality({i \in 1..Len(scraped) : hasEmptyFields(scraped, i)})
    /\ spc' = "returned"
    /\ UNCHANGED <<rows, rowIdx, totalRowsProcessed, skippedRows, statsVars>>

(***************************************************************************)
(* Input rows of the report table                                          *)
(***************************************************************************)
tT1 == <<"T","1">>
tT2 == <<"T","2">>
tDisha == <<"D","i","s","h","a">>
tDaga == <<"D","a","g","a">>
tGuestRow == <<"G","u","e","s","t","_","9">>
tDivaSheth == <<"D","i","v","a"," ","S","h","e","t","h">>
tDiva == <<" ","D","i","v","a">>
tRajVip == <<"R","a","j"," ","K"," ","(","v","i","p",")">>
tVipOnly == <<"(","v","i","p",")">>
tSeatComp == <<"C","o","m","p","l","i","m","e","n","t","a","r","y"," ","P","a","s","s">>
tSeatA1 == <<"A","1">>
tTransDate == <<"0","8","-","1","0","-","2","0","2","5"," ","1","0",":","0","0",":","0","0">>
tCinema == <<"N","S","C","I">>
tShowDate == <<"D","e","c"," ","6">>
tAmt0 == <<"0">>
tAmtPaid == <<"1",",","5","0","0">>
tQty1 == <<"1">>
tQty2 == <<" ","2"," ">>
tQty3 == <<"3">>
tRowPhone == <<"9","8","7","6","5","4","3","2","1","0">>
tRowEmail == <<"d","@","x",".","i","n">>

FullRowCells == 54

\* a row of n cells holding the texts of `at` (0-based cell index -> text), empty elsewhere
Row(n, at) == [i \in 1..n |-> IF (i - 1) \in DOMAIN at THEN at[i - 1] ELSE Str0]

\* single rows: every combination of the cells that decide the name, the complimentary
\* test and the expansion, in rows of 44, 45 and 54 cells
RowInputs ==
    {Row(n, (2 :> tid) @@ (9 :> seat) @@ (10 :> qty) @@ (11 :> amt) @@ (20 :> first)
            @@ (21 :> last) @@ (45 :> full) @@ (49 :> comp)
            @@ (4 :> tTransDate) @@ (24 :> tRowPhone) @@ (25 :> tRowEmail)) :
        n \in {MinCells - 1, MinCells, FullRowCells},
        tid \in {tT1, Str0},
        seat \in {Str0, tSeatComp},
        qty \in {Str0, tQty1, tQty3},
        amt \in {tAmt0, tAmtPaid},
        first \in {Str0, tDisha, tGuestRow},
        last \in {Str0, tDaga},
        full \in {Str0, tDivaSheth, tDiva},
        comp \in {Str0, tRajVip, tVipOnly}}

\* rows of group purchases: the transaction cells vary, rows may share a Trans_Id
GroupRow(tid, date, cinema, seat, amt) ==
    Row(FullRowCells, (2 :> tid) @@ (4 :> date) @@ (5 :> cinema) @@ (7 :> tShowDate)
            @@ (9 :> seat) @@ (10 :> tQty2) @@ (11 :> amt)
            @@ (20 :> (IF amt = tAmt0 THEN tDisha ELSE tDaga))
            @@ (24 :> (IF seat = Str0 THEN tRowPhone ELSE Str0)) @@ (25 :> tRowEmail))

GroupRowInputs ==
    {GroupRow(tT1, date, cinema, seat, amt) :
        date \in {Str0, tTransDate}, cinema \in {Str0, tCinema},
        seat \in {Str0, tSeatA1}, amt \in {tAmt0, tAmtPaid}}
    \cup
    {GroupRow(tT2, date, cinema, seat, tAmtPaid) :
        date \in {Str0, tTransDate}, cinema \in {Str0, tCinema}, seat \in {Str0, tSeatA1}}

SeqsUpTo(S, n) == UNION {[1..k -> S] : k \in 0..n}

(***************************************************************************)
(* Initial states                                                          *)
(***************************************************************************)
ScrapeStart(rs) ==
    /\ rows = rs
    /\ rowIdx = 1
    /\ scraped = << >>
    /\ totalRowsProcessed = 0
    /\ skippedRows = 0
    /\ filledCount = 0
    /\ spc = "rows"

NoStats == [calculated |-> FALSE]

\* no scraper process, and nothing in eventSummaries
NoProcess ==
    /\ procs = << >>
    /\ eventSummaries = << >>

RunIdle ==
    /\ registrations = << >>
    /\ arpitMembers = << >>
    /\ previousParticipants = << >>
    /\ memberIdx = 1
    /\ arpitMemberRegistrations = << >>
    /\ usedRegistrationIds = {}
    /\ previousPhoneMap = {}
    /\ flags = << >>
    /\ stats = NoStats
    /\ cpc = "idle"
    /\ runsDone = 0
    /\ lastLinks = {}

StoreEmpty ==
    /\ registrationDetails = << >>
    /\ arpitGroupMembers = << >>
    /\ previousyearparticipants = << >>
    /\ dashboardStats = << >>

\* one row of the report
InitRow ==
    /\ \E r \in RowInputs : ScrapeStart(<<r>>)
    /\ StoreEmpty /\ RunIdle
    /\ NoProcess

\* a report of up to MaxRows rows of group purchases
InitScrape ==
    /\ \E rs \in SeqsUpTo(GroupRowInputs, MaxRows) : ScrapeStart(rs)
    /\ StoreEmpty /\ RunIdle
    /\ NoProcess

\* a report of up to MaxRows rows, short and full, named and nameless, paid and
\* complimentary
AccountRowInputs ==
    {Row(n, (2 :> tid) @@ (10 :> qa[1]) @@ (11 :> qa[2]) @@ (20 :> first)) :
        n \in {MinCells - 1, FullRowCells},
        tid \in {tT1, tT2},
        qa \in {<<tQty1, tAmtPaid>>, <<tQty3, tAmt0>>},
        first \in {Str0, tDisha}}

InitRows ==
    /\ \E rs \in SeqsUpTo(AccountRowInputs, MaxRows) : ScrapeStart(rs)
    /\ StoreEmpty /\ RunIdle
    /\ NoProcess

NextScrape == ParseRow \/ SecondPass

SpecRow == InitRow /\ [][NextScrape]_vars
SpecScrape == InitScrape /\ [][NextScrape]_vars
SpecRows == InitRows /\ [][NextScrape]_vars

(***************************************************************************)
(* calculateDashboardStats: identity keys                                  *)
(***************************************************************************)
PhonePunctuation == {" ", "-", "+"}
CountryCode == <<"9","1">>
Phone10Len == 10

\* x.replace(/[\s\-\+]/g, '').replace(/^91/, ''), then the last 10 characters when at
\* least 10 remain, else null (modelled as the empty text): the key of the matching loop
matchPhone10(phoneText) ==
    LET stripped == removeChars(phoneText, PhonePunctuation)
        phone == IF startsWith(stripped, CountryCode)
                 THEN SubSeq(stripped, Len(CountryCode) + 1, Len(stripped)) ELSE stripped
    IN IF Len(phone) >= Phone10Len THEN sliceLast(phone, Phone10Len) ELSE Str0

\* x.replace(/[\s\-\+]/g, ''), minus a leading 91 when more than 10 characters remain,
\* then the last 10 characters: the key of previousPhoneMap and of isReturning
statsPhone10(phoneText) ==
    LET stripped == removeChars(phoneText, PhonePunctuation)
        phone == IF startsWith(stripped, CountryCode) /\ Len(stripped) > Phone10Len
                 THEN SubSeq(stripped, Len(CountryCode) + 1, Len(stripped)) ELSE stripped
    IN IF Len(phone) >= Phone10Len THEN sliceLast(phone, Phone10Len) ELSE Str0

\* reg.phone || reg.primaryPhoneNo || ''
regPhoneOf(reg) ==
    IF "phone" \in DOMAIN reg /\ reg.phone # Str0 THEN reg.phone
    ELSE IF "primaryPhoneNo" \in DOMAIN reg THEN reg.primaryPhoneNo ELSE Str0

\* x?.toLowerCase().trim()
normalized(text) == trim(toLowerCase(text))

(***************************************************************************)
(* calculateDashboardStats: the member matching loop                       *)
(***************************************************************************)
\* the positions 1..n in order
Positions(n) == [i \in 1..n |-> i]

\* score of a name candidate: +3 phone10, +2 email
scoreOf(member, reg) ==
    LET phone10 == matchPhone10(member.mobileNumber)
        regPhone10 == matchPhone10(regPhoneOf(reg))
        memberEmailNormalized == normalized(member.email)
        regEmailNormalized == normalized(reg.email)
    IN (IF phone10 # Str0 /\ regPhone10 # Str0 /\ phone10 = regPhone10 THEN 3 ELSE 0)
       + (IF memberEmailNormalized # Str0 /\ regEmailNormalized # Str0
             /\ memberEmailNormalized = regEmailNormalized THEN 2 ELSE 0)

\* the for loop over nameMatchingRegs: <<bestScore, bestMatch>>, bestMatch 0 for null
RECURSIVE bestOf(_, _, _, _, _)
bestOf(member, regs, candidates, bestScore, bestMatch) ==
    IF Len(candidates) = 0 THEN <<bestScore, bestMatch>>
    ELSE LET score == scoreOf(member, regs[Head(candidates)])
         IN IF score > bestScore
            THEN bestOf(member, regs, Tail(candidates), score, Head(candidates))
            ELSE bestOf(member, regs, Tail(candidates), bestScore, bestMatch)

\* Array.prototype.find over positions: the first position that passes, 0 for undefined
FirstOf(S) == IF S = {} THEN 0 ELSE CHOOSE i \in S : \A j \in S : i <= j

\* matchedReg of one member: the position of the matched registration, 0 for none
matchedRegOf(member, regs, used) ==
    LET memberNameNormalized == normalized(member.fullName)
        phone10 == matchPhone10(member.mobileNumber)
        memberEmailNormalized == normalized(member.email)
        IsNameMatch(i) ==
            /\ regs[i].registrationId \notin used
            /\ memberNameNormalized # Str0
            /\ normalized(regs[i].customerName) # Str0
            /\ memberNameNormalized = normalized(regs[i].customerName)
        nameMatchingRegs == SelectSeq(Positions(Len(regs)), IsNameMatch)
        best == bestOf(member, regs, nameMatchingRegs, 0, 0)
        byName == IF Len(nameMatchingRegs) > 0
                     /\ best[2] # 0 /\ (best[1] > 0 \/ Len(nameMatchingRegs) = 1)
                  THEN best[2] ELSE 0
        byPhone == IF byName = 0 /\ phone10 # Str0
                   THEN FirstOf({i \in 1..Len(regs) :
                            /\ regs[i].registrationId \notin used
                            /\ matchPhone10(regPhoneOf(regs[i])) # Str0
                            /\ phone10 = matchPhone10(regPhoneOf(regs[i]))})
                   ELSE byName
        byEmail == IF byPhone = 0 /\ memberEmailNormalized # Str0
                   THEN FirstOf({i \in 1..Len(regs) :
                            /\ regs[i].registrationId \notin used
                            /\ normalized(regs[i].email) # Str0
                            /\ memberEmailNormalized = normalized(regs[i].email)})
                   ELSE byPhone
    IN byEmail

\* Map.prototype.set
MapSet(map, key, value) ==
    [k \in DOMAIN map \cup {key} |-> IF k = key THEN value ELSE map[k]]

(***************************************************************************)
(* calculateDashboardStats: previous participants and counters             *)
(***************************************************************************)
GroupNames == {"YG", "SG", "JG", "HG"}
AgeThreshold == 40

\* the keys previousPhoneMap holds after the forEach
previousPhoneKeys(participants) ==
    {statsPhone10(participants[i].phone) : i \in 1..Len(participants)} \ {Str0}

\* a plausible slip: a key of the lookup is consumed by the first registration that hits it
registrationFlagsConsuming(regs, memberMap, phoneKeys) ==
    [r \in 1..Len(regs) |->
        LET isMumukshu == regs[r].registrationId \in DOMAIN memberMap
            phone10 == statsPhone10(regPhoneOf(regs[r]))
        IN [isMumukshu |-> isMumukshu,
            arpitMember |-> IF isMumukshu THEN memberMap[regs[r].registrationId] ELSE 0,
            isReturning |-> /\ phone10 # Str0 /\ phone10 \in phoneKeys
                            /\ \A q \in 1..(r-1) : statsPhone10(regPhoneOf(regs[q])) # phone10]]

\* isMumukshu, arpitMember (position, 0 for null) and isReturning of every registration
registrationFlags(regs, memberMap, phoneKeys) ==
    [r \in 1..Len(regs) |->
        LET isMumukshu == regs[r].registrationId \in DOMAIN memberMap
            phone10 == statsPhone10(regPhoneOf(regs[r]))
        IN [isMumukshu |-> isMumukshu,
            arpitMember |-> IF isMumukshu THEN memberMap[regs[r].registrationId] ELSE 0,
            isReturning |-> phone10 # Str0 /\ phone10 \in phoneKeys]]

Count(S) == Cardinality(S)

\* `${member.fullName}-${member.mobileNumber}`.toLowerCase()
memberIdOf(member) == toLowerCase(member.fullName \o <<"-">> \o member.mobileNumber)

\* a plausible slip: notRegistered is what is left of the whole roster
groupRegistrationStatsOfWholeRoster(members, memberMap) ==
    LET registeredArpitMembers == {memberIdOf(members[memberMap[k]]) : k \in DOMAIN memberMap}
    IN [g \in GroupNames |->
          [registered |-> Count({m \in 1..Len(members) :
                             members[m].group = g /\ memberIdOf(members[m]) \in registeredArpitMembers}),
           notRegistered |-> Count({m \in 1..Len(members) :
                             ~(members[m].group = g /\ memberIdOf(members[m]) \in registeredArpitMembers)})]]

\* groupRegistrationStats: registered / notRegistered per fixed group
groupRegistrationStatsOf(members, memberMap) ==
    LET registeredArpitMembers == {memberIdOf(members[memberMap[k]]) : k \in DOMAIN memberMap}
    IN [g \in GroupNames |->
          [registered |-> Count({m \in 1..Len(members) :
                             members[m].group = g /\ memberIdOf(members[m]) \in registeredArpitMembers}),
           notRegistered |-> Count({m \in 1..Len(members) :
                             members[m].group = g /\ memberIdOf(members[m]) \notin registeredArpitMembers})]]

\* a plausible slip: the sign of the age is dropped
ageOfMagnitude(reg) ==
    LET parsed == parseInt(IF "age" \in DOMAIN reg THEN reg.age ELSE Str0)
    IN IF parsed.isNaN THEN 0 ELSE IF parsed.value < 0 THEN 0 - parsed.value ELSE parsed.value

\* parseInt(registration.age) || 0; the stored age is held as the text String() gives
ageOf(reg) ==
    LET parsed == parseInt(IF "age" \in DOMAIN reg THEN reg.age ELSE Str0)
    IN IF parsed.isNaN THEN 0 ELSE parsed.value

\* a plausible slip: registrations without a phone10 are counted neither returning nor first-timer
statsOfPhoneOnly(regs, members, memberMap, fl) ==
    LET R == 1..Len(regs)
        age(r) == ageOf(regs[r])
        firstTimer(r) == ~fl[r].isReturning /\ statsPhone10(regPhoneOf(regs[r])) # Str0
    IN [calculated |-> TRUE,
        totalRegistrations |-> Len(regs),
        mumukshus |-> Count({r \in R : fl[r].isMumukshu}),
        nonMumukshus |-> Count({r \in R : ~fl[r].isMumukshu}),
        groupBreakdown |-> [g \in GroupNames |->
            Count({r \in R : fl[r].isMumukshu /\ fl[r].arpitMember # 0
                             /\ members[fl[r].arpitMember].group = g})],
        firstTimers |-> Count({r \in R : firstTimer(r)}),
        returningParticipants |-> Count({r \in R : fl[r].isReturning}),
        above40 |-> Count({r \in R : firstTimer(r) /\ age(r) > 0 /\ age(r) >= AgeThreshold}),
        under40 |-> Count({r \in R : firstTimer(r) /\ age(r) > 0 /\ age(r) < AgeThreshold}),
        unknownAge |-> Count({r \in R : firstTimer(r) /\ ~(age(r) > 0)}),
        arpitRegistered |-> Count(DOMAIN memberMap),
        arpitNotRegistered |-> Len(members) - Count(DOMAIN memberMap),
        groupRegistrationStats |-> groupRegistrationStatsOf(members, memberMap)]

\* the counters of the registrations.forEach and the stats object built from them
statsOf(regs, members, memberMap, fl) ==
    LET R == 1..Len(regs)
        age(r) == ageOf(regs[r])
        firstTimer(r) == ~fl[r].isReturning
    IN [calculated |-> TRUE,
        totalRegistrations |-> Len(regs),
        mumukshus |-> Count({r \in R : fl[r].isMumukshu}),
        nonMumukshus |-> Count({r \in R : ~fl[r].isMumukshu}),
        groupBreakdown |-> [g \in GroupNames |->
            Count({r \in R : fl[r].isMumukshu /\ fl[r].arpitMember # 0
                             /\ members[fl[r].arpitMember].group = g})],
        firstTimers |-> Count({r \in R : firstTimer(r)}),
        returningParticipants |-> Count({r \in R : fl[r].isReturning}),
        above40 |-> Count({r \in R : firstTimer(r) /\ age(r) > 0 /\ age(r) >= AgeThreshold}),
        under40 |-> Count({r \in R : firstTimer(r) /\ age(r) > 0 /\ age(r) < AgeThreshold}),
        unknownAge |-> Count({r \in R : firstTimer(r) /\ ~(age(r) > 0)}),
        arpitRegistered |-> Count(DOMAIN memberMap),
        arpitNotRegistered |-> Len(members) - Count(DOMAIN memberMap),
        groupRegistrationStats |-> groupRegistrationStatsOf(members, memberMap)]

(***************************************************************************)
(* calculateDashboardStats: percentages                                    *)
(* A percentage is held in hundredths of a percent (33.33 is 3333), the    *)
(* unit toFixed(2) rounds to.                                              *)
(***************************************************************************)
PercentScale == 100
FixedDigitsScale == 100

\* { ...a, ...b }: the fields of a, overridden and extended by those of b
Merge(a, b) == [f \in DOMAIN a \cup DOMAIN b |-> IF f \in DOMAIN b THEN b[f] ELSE a[f]]

\* ((count / total) * 100).toFixed(2): the nearest hundredth, the larger one on a tie
toFixed2(count, total) ==
    (2 * count * PercentScale * FixedDigitsScale + total) \div (2 * total)

\* total > 0 ? ((count / total) * 100).toFixed(2) : '0', read back with parseFloat
percentageOf(count, total) == IF total > 0 THEN toFixed2(count, total) ELSE 0

\* a plausible slip: the age-bucket percentages are taken over total, not over firstTimers
percentagesOfOverTotal(c) ==
    [mumukshusPercentage |-> percentageOf(c.mumukshus, c.totalRegistrations),
     nonMumukshusPercentage |-> percentageOf(c.nonMumukshus, c.totalRegistrations),
     firstTimersPercentage |-> percentageOf(c.firstTimers, c.totalRegistrations),
     returningPercentage |-> percentageOf(c.returningParticipants, c.totalRegistrations),
     above40Percentage |-> percentageOf(c.above40, c.totalRegistrations),
     under40Percentage |-> percentageOf(c.under40, c.totalRegistrations),
     unknownAgePercentage |-> percentageOf(c.unknownAge, c.totalRegistrations)]

\* the seven percentages of the stats object, from the counters
percentagesOf(c) ==
    [mumukshusPercentage |-> percentageOf(c.mumukshus, c.totalRegistrations),
     nonMumukshusPercentage |-> percentageOf(c.nonMumukshus, c.totalRegistrations),
     firstTimersPercentage |-> percentageOf(c.firstTimers, c.totalRegistrations),
     returningPercentage |-> percentageOf(c.returningParticipants, c.totalRegistrations),
     above40Percentage |-> percentageOf(c.above40, c.firstTimers),
     under40Percentage |-> percentageOf(c.under40, c.firstTimers),
     unknownAgePercentage |-> percentageOf(c.unknownAge, c.firstTimers)]

(***************************************************************************)
(* calculateDashboardStats: registration trends and referral histogram     *)
(***************************************************************************)
\* the value of a field of a fetched document; a field the document does not carry
\* reads undefined, which every test of the source treats like the empty text
Field(doc, f) == IF f \in DOMAIN doc THEN doc[f] ELSE Str0

\* the characters of the date keys in code-unit order ("-" < "/" < digits < letters)
CharOrder == <<"-", "/">> \o DigitChars \o LowerChars
CharRank(c) == CHOOSE i \in 1..Len(CharOrder) : CharOrder[i] = c

\* comparison of two texts by code units: -1, 0 or 1 (the >= of line 300, and
\* localeCompare of line 290 on these characters)
RECURSIVE compareText(_, _)
compareText(a, b) ==
    IF Len(a) = 0 /\ Len(b) = 0 THEN 0
    ELSE IF Len(a) = 0 THEN -1
    ELSE IF Len(b) = 0 THEN 1
    ELSE IF a[1] = b[1] THEN compareText(Tail(a), Tail(b))
    ELSE IF CharRank(a[1]) < CharRank(b[1]) THEN -1
    ELSE 1

UndefinedText == <<"u","n","d","e","f","i","n","e","d">>
referralCutoffDate == <<"2","0","2","5","-","1","0","-","0","9">>
MaxInvitees == 5

\* parseTransDate: null (the empty text here) for a missing or empty Trans_Date, else
\* `${year}-${month}-${day}` of the text before the first space, split at "-"; a part
\* the split does not yield is undefined and prints as "undefined"
parseTransDate(transDate) ==
    IF transDate = Str0 THEN Str0
    ELSE LET datePart == split(transDate, " ")[1]
             parts == split(datePart, "-")
             part(i) == IF i <= Len(parts) THEN parts[i] ELSE UndefinedText
         IN part(3) \o <<"-">> \o part(2) \o <<"-">> \o part(1)

\* reg.Ticket_Qty || 1
ticketQtyOf(reg) == IF "Ticket_Qty" \in DOMAIN reg THEN OrNum(reg.Ticket_Qty, 1) ELSE 1

\* parseTransDate(reg.Trans_Date) of every registration, in order
RECURSIVE regDatesOf(_)
regDatesOf(regs) ==
    IF Len(regs) = 0 THEN << >>
    ELSE <<parseTransDate(Field(Head(regs), "Trans_Date"))>> \o regDatesOf(Tail(regs))

\* groupedData: date key -> count
groupedDataOf(regs) ==
    LET dates == regDatesOf(regs)
        keys == {dates[r] : r \in 1..Len(regs)} \ {Str0}
        RECURSIVE Sum(_)
        Sum(S) == IF S = {} THEN 0
                  ELSE LET r == CHOOSE x \in S : TRUE
                       IN ticketQtyOf(regs[r]) + Sum(S \ {r})
    IN [d \in keys |-> Sum({r \in 1..Len(regs) : dates[r] = d})]

\* Object.entries(groupedData).map(...).sort(localeCompare): entries in date-key order
RECURSIVE sortedEntries(_, _)
sortedEntries(grouped, keys) ==
    IF keys = {} THEN << >>
    ELSE LET first == CHOOSE d \in keys : \A e \in keys : compareText(d, e) <= 0
         IN <<[_id |-> first, count |-> grouped[first]]>>
            \o sortedEntries(grouped, keys \ {first})

allTimeRegistrationsOf(regs) ==
    LET grouped == groupedDataOf(regs) IN sortedEntries(grouped, DOMAIN grouped)

\* the field names of invitee slot i
InviteeKeys ==
    <<[name |-> "name_1", mobile |-> "mobile_number_1", email |-> "email_id_1"],
      [name |-> "name_2", mobile |-> "mobile_number_2", email |-> "email_id_2"],
      [name |-> "name_3", mobile |-> "mobile_number_3", email |-> "email_id_3"],
      [name |-> "name_4", mobile |-> "mobile_number_4", email |-> "email_id_4"],
      [name |-> "name_5", mobile |-> "mobile_number_5", email |-> "email_id_5"]>>

\* inviteeCount of one document: the slots holding a non-empty name, mobile or email
inviteeCountOf(reg) ==
    Count({i \in 1..MaxInvitees :
              \/ Field(reg, InviteeKeys[i].name) # Str0
              \/ Field(reg, InviteeKeys[i].mobile) # Str0
              \/ Field(reg, InviteeKeys[i].email) # Str0})

\* the continue of line 300: regDate && regDate >= referralCutoffDate
skippedByCutoff(regDate) ==
    regDate # Str0 /\ compareText(regDate, referralCutoffDate) >= 0

\* the bucket each registration increments, in order; -1 for a registration the loop
\* skips
RECURSIVE referralBucketsOf(_)
referralBucketsOf(regs) ==
    IF Len(regs) = 0 THEN << >>
    ELSE <<IF skippedByCutoff(parseTransDate(Field(Head(regs), "Trans_Date")))
           THEN -1 ELSE inviteeCountOf(Head(regs))>>
         \o referralBucketsOf(Tail(regs))

\* referralStats: bucket k counts the registrations the loop does not skip whose
\* inviteeCount is k
referralStatsOf(regs) ==
    LET buckets == referralBucketsOf(regs)
    IN [k \in 0..MaxInvitees |-> Count({r \in 1..Len(regs) : buckets[r] = k})]

\* a text of the shape DD-MM-YYYY HH:MM:SS, the form parseTransDate is written for
IsTransDateShaped(text) ==
    /\ Len(text) = 19
    /\ \A i \in {1, 2, 4, 5, 7, 8, 9, 10, 12, 13, 15, 16, 18, 19} : IsDigit(text[i])
    /\ text[3] = "-" /\ text[6] = "-" /\ text[11] = " " /\ text[14] = ":" /\ text[17] = ":"

\* YYYY-MM-DD of a text of that shape
isoDateOf(text) ==
    SubSeq(text, 7, 10) \o <<"-">> \o SubSeq(text, 4, 5) \o <<"-">> \o SubSeq(text, 1, 2)

\* the stats object: counters, percentages, trends and referral histogram
statsObject(regs, members, memberMap, fl) ==
    LET c == statsOf(regs, members, memberMap, fl)
    IN Merge(Merge(c, percentagesOf(c)),
             [registrationTrends |-> allTimeRegistrationsOf(regs),
              referralStats |-> referralStatsOf(regs)])

(***************************************************************************)
(* calculateDashboardStats: what the queries fetch                         *)
(***************************************************************************)
RegistrationProjection ==
    {"customerName", "phone", "primaryPhoneNo", "email", "age", "registrationId",
     "Ticket_Qty", "Trans_Date"}
MemberProjection ==
    {"fullName", "mobileNumber", "alternateMobileNumber", "email", "age", "group"}
ParticipantProjection == {"phone", "fullName", "years", "age"}

\* find({}, { projection }): the listed fields a document carries
Project(doc, fields) == [f \in DOMAIN doc \cap fields |-> doc[f]]

FetchAll(collection, fields) == [i \in 1..Len(collection) |-> Project(collection[i], fields)]

(***************************************************************************)
(* Actions of calculateDashboardStats                                      *)
(***************************************************************************)
\* the (registration, member) pairs the run holds: registration r is paired with the
\* member arpitMemberRegistrations.get(r.registrationId)
MatchLinks ==
    {l \in (1..Len(registrations)) \X (1..Len(arpitMembers)) :
        /\ registrations[l[1]].registrationId \in DOMAIN arpitMemberRegistrations
        /\ arpitMemberRegistrations[registrations[l[1]].registrationId] = l[2]}

\* a plausible slip: the claimed ids live outside the function and survive a run
FetchDataKeepUsedIds ==
    /\ cpc = "idle"
    /\ runsDone < MaxRuns
    /\ registrations' = FetchAll(registrationDetails, RegistrationProjection)
    /\ arpitMembers' = FetchAll(arpitGroupMembers, MemberProjection)
    /\ previousParticipants' =
           FetchAll(SelectSeq(previousyearparticipants, LAMBDA p : p.years # {}),
                    ParticipantProjection)
    /\ arpitMemberRegistrations' = << >>
    /\ usedRegistrationIds' = usedRegistrationIds
    /\ memberIdx' = 1
    /\ cpc' = "matching"
    /\ UNCHANGED <<scrapeVars, procVars, storeVars, dashboardStats, previousPhoneMap, flags, stats,
                   runsDone, lastLinks>>

\* connect, fetch the three collections, start with an empty Map and Set
FetchData ==
    /\ cpc = "idle"
    /\ runsDone < MaxRuns
    /\ registrations' = FetchAll(registrationDetails, RegistrationProjection)
    /\ arpitMembers' = FetchAll(arpitGroupMembers, MemberProjection)
    /\ previousParticipants' =
           FetchAll(SelectSeq(previousyearparticipants, LAMBDA p : p.years # {}),
                    ParticipantProjection)
    /\ arpitMemberRegistrations' = << >>
    /\ usedRegistrationIds' = {}
    /\ memberIdx' = 1
    /\ cpc' = "matching"
    /\ UNCHANGED <<scrapeVars, procVars, storeVars, dashboardStats, previousPhoneMap, flags, stats,
                   runsDone, lastLinks>>

\* one iteration of for (const member of arpitMembers)
MatchMember ==
    /\ cpc = "matching"
    /\ memberIdx <= Len(arpitMembers)
    /\ LET matchedReg == matchedRegOf(arpitMembers[memberIdx], registrations, usedRegistrationIds)
       IN IF matchedReg # 0
          THEN /\ arpitMemberRegistrations' =
                      MapSet(arpitMemberRegistrations,
                             registrations[matchedReg].registrationId, memberIdx)
               /\ usedRegistrationIds' =
                      usedRegistrationIds \cup {registrations[matchedReg].registrationId}
          ELSE UNCHANGED <<arpitMemberRegistrations, usedRegistrationIds>>
    /\ memberIdx' = memberIdx + 1
    /\ UNCHANGED <<scrapeVars, procVars, storeVars, dashboardStats, registrations, arpitMembers,
                   previousParticipants, previousPhoneMap, flags, stats, cpc, runsDone, lastLinks>>

\* previousPhoneMap, the counters and the stats object
CalculateStatistics ==
    /\ cpc = "matching"
    /\ memberIdx > Len(arpitMembers)
    /\ previousPhoneMap' = previousPhoneKeys(previousParticipants)
    /\ flags' = registrationFlags(registrations, arpitMemberRegistrations, previousPhoneMap')
    /\ stats' = Merge(statsObject(registrations, arpitMembers, arpitMemberRegistrations, flags'),
                      [calculatedAt |-> runsDone + 1])
    /\ cpc' = "saving"
    /\ UNCHANGED <<scrapeVars, procVars, storeVars, dashboardStats, registrations, arpitMembers,
                   previousParticipants, memberIdx, arpitMemberRegistrations,
                   usedRegistrationIds, runsDone, lastLinks>>

\* a plausible slip: the old snapshots are left in place and the new one is added
ClearOldStatsKeeping ==
    /\ cpc = "saving"
    /\ dashboardStats' = dashboardStats
    /\ cpc' = "inserting"
    /\ UNCHANGED <<scrapeVars, procVars, storeVars, runVars, runsDone, lastLinks>>

\* await db.collection('dashboardStats').deleteMany({})
ClearOldStats ==
    /\ cpc = "saving"
    /\ dashboardStats' = << >>
    /\ cpc' = "inserting"
    /\ UNCHANGED <<scrapeVars, procVars, storeVars, runVars, runsDone, lastLinks>>

\* await db.collection('dashboardStats').insertOne(stats), and the return
InsertStats ==
    /\ cpc = "inserting"
    /\ dashboardStats' = Append(dashboardStats, stats)
    /\ cpc' = "idle"
    /\ runsDone' = runsDone + 1
    /\ lastLinks' = MatchLinks
    /\ UNCHANGED <<scrapeVars, procVars, storeVars, runVars>>

\* catch (error) { console.error(...); throw error } finally { client.close() }: an
\* await of the run (connect, a find, deleteMany, insertOne) or the computation has
\* raised; the run ends rejected and writes nothing further
CatchError ==
    /\ \/ cpc = "idle" /\ runsDone < MaxRuns
       \/ cpc \in {"matching", "saving", "inserting"}
    /\ cpc' = "failed"
    /\ UNCHANGED <<scrapeVars, procVars, storeVars, dashboardStats, registrations, arpitMembers,
                   previousParticipants, previousPhoneMap, flags, stats, memberIdx,
                   arpitMemberRegistrations, usedRegistrationIds, runsDone, lastLinks>>

(***************************************************************************)
(* Stored collections the stats run reads                                  *)
(***************************************************************************)
tDishaDaga == <<"D","i","s","h","a"," ","D","a","g","a">>
tDishaDagaLoose == <<" ","d","i","s","h","a"," ","D","A","G","A">>
tRajK == <<"R","a","j"," ","K">>
tNobody == <<"N","o","b","o","d","y">>
tPhoneA == <<"9","8","7","6","5","4","3","2","1","0">>
tPhoneAPlus == <<"+","9","1"," ","9","8","7","6","5","-","4","3","2","1","0">>
tPhoneA91 == <<"9","1","9","8","7","6","5","4","3","2","1","0">>
tPhoneB == <<"9","1","2","3","4","5","6","7","8","9">>
tEmailD == <<"d","@","x",".","i","n">>
tEmailDLoose == <<"D","@","X",".","i","n"," ">>

Registration(name, phone, email, id, age) ==
    [customerName |-> name, phone |-> phone, primaryPhoneNo |-> Str0, email |-> email,
     age |-> age, registrationId |-> id, Ticket_Qty |-> 1, Trans_Date |-> tTransDate]

Member(name, mobile, email, group) ==
    [fullName |-> name, mobileNumber |-> mobile, alternateMobileNumber |-> Str0,
     email |-> email, age |-> 0, group |-> group]

Participant(phone, years) == [fullName |-> tNobody, phone |-> phone, years |-> years, age |-> 0]

RegistrationInputs ==
    {Registration(tDishaDaga, tPhoneA, tEmailD, tT1, <<"4","5">>),
     Registration(tDishaDaga, Str0, Str0, tT2, <<"0">>),
     Registration(tDivaSheth, tPhoneAPlus, Str0, tT2, <<"2","0">>),
     Registration(tRajK, tPhoneB, tEmailDLoose, <<"T","3">>, <<"4","0">>)}

MemberInputs ==
    {Member(tDishaDagaLoose, tPhoneAPlus, Str0, "YG"),
     Member(tDishaDaga, Str0, tEmailDLoose, "SG"),
     Member(tNobody, tPhoneB, Str0, "XX")}

ParticipantInputs ==
    {<< >>,
     <<Participant(tPhoneA91, {2023})>>,
     <<Participant(tPhoneB, {}), Participant(tPhoneAPlus, {2019, 2024})>>}

ScrapeIdle ==
    /\ rows = << >>
    /\ rowIdx = 1
    /\ scraped = << >>
    /\ totalRowsProcessed = 0
    /\ skippedRows = 0
    /\ filledCount = 0
    /\ spc = "idle"

\* the collections hold any registrations, roster and previous participants; no run yet
Init ==
    /\ ScrapeIdle
    /\ registrationDetails \in SeqsUpTo(RegistrationInputs, MaxRegs)
    /\ arpitGroupMembers \in SeqsUpTo(MemberInputs, MaxMembers)
    /\ previousyearparticipants \in ParticipantInputs
    /\ dashboardStats = << >>
    /\ RunIdle
    /\ NoProcess

Next == FetchData \/ MatchMember \/ CalculateStatistics \/ ClearOldStats \/ InsertStats

Spec == Init /\ [][Next]_vars

(***************************************************************************)
(* Collections for the matching loop alone: registrations that collide on  *)
(* the name, that share a registrationId, and that carry the member's      *)
(* phone or email under another name                                       *)
(***************************************************************************)
tT3 == <<"T","3">>
tT4 == <<"T","4">>

MatchRegistrationInputs ==
    {Registration(tDishaDaga, Str0, Str0, tT2, <<"0">>),
     Registration(tDivaSheth, tPhoneAPlus, Str0, tT2, <<"0">>),
     Registration(tDishaDaga, tPhoneA91, Str0, tT1, <<"0">>),
     Registration(tDishaDaga, tPhoneA, tEmailD, tT3, <<"0">>),
     Registration(tRajK, Str0, tEmailDLoose, tT4, <<"0">>)}

MatchMemberInputs ==
    {Member(tDishaDagaLoose, tPhoneAPlus, tEmailDLoose, "YG"),
     Member(tDishaDaga, tPhoneA, Str0, "SG"),
     Member(tDivaSheth, Str0, tEmailD, "HG")}

InitMatch ==
    /\ ScrapeIdle
    /\ registrationDetails \in SeqsUpTo(MatchRegistrationInputs, MaxMatchRegs)
    /\ arpitGroupMembers \in SeqsUpTo(MatchMemberInputs, MaxMembers)
    /\ previousyearparticipants = << >>
    /\ dashboardStats = << >>
    /\ RunIdle
    /\ NoProcess

\* the fetch and the matching loop of one run
NextMatch == FetchData \/ MatchMember

SpecMatch == InitMatch /\ [][NextMatch]_vars

(***************************************************************************)
(* One member and one registration under different names, each holding a   *)
(* 10-digit number written bare, with +91, with 91, or with +91 and hyphens *)
(***************************************************************************)
tPhoneC == <<"8","0","1","2","3","4","5","6","7","8">>
tPhone91 == <<"9","1","9","8","7","6","5","4","3","2">>

PhoneNumberInputs == {tPhoneA, tPhoneB, tPhoneC, tPhone91}

PhoneForms(number) ==
    {number,
     <<"+","9","1"," ">> \o number,
     CountryCode \o number,
     <<"+","9","1","-">> \o SubSeq(number, 1, 5) \o <<"-">> \o SubSeq(number, 6, 10)}

PhoneInputs == UNION {PhoneForms(number) : number \in PhoneNumberInputs}

InitPhone ==
    /\ ScrapeIdle
    /\ registrationDetails \in
           {<<Registration(tRajK, phone, Str0, tT1, <<"0">>)>> : phone \in PhoneInputs}
    /\ arpitGroupMembers \in
           {<<Member(tDishaDaga, phone, Str0, "YG")>> : phone \in PhoneInputs}
    /\ previousyearparticipants = << >>
    /\ dashboardStats = << >>
    /\ RunIdle
    /\ NoProcess

SpecPhone == InitPhone /\ [][NextMatch]_vars

(***************************************************************************)
(* The scraper process: BMSScraper.run (initBrowser, login, the two        *)
(* scrapes, saveToDatabase) followed by calculateDashboardStats in main.   *)
(* Each await of saveToDatabase is a step of its own, so that the steps of *)
(* two processes interleave.                                               *)
(***************************************************************************)
\* the calls of one process, in program order
ProcessOrder == <<"login", "scrapeEventSummary", "scrapeRegistrationDetails",
                  "saveToDatabase", "calculateDashboardStats">>

\* the positions inside saveToDatabase
SavePositions == {"scraped", "eventsDeleted", "eventsSaved", "registrationsDeleted"}

\* exitCode of a process that has not exited
Running == -1

NewProcess ==
    [pc |-> "start", events |-> << >>, registrations |-> << >>, log |-> << >>,
     failed |-> {}, statsFrom |-> 0, exitCode |-> Running]

\* what the report pages hold when process p scrapes them
EventOf(p) == [eventName |-> DefaultEventName, totalOffLoadedQty |-> p + 1]

ReportOf(p) ==
    [i \in 1..(p + 1) |->
        Registration(tRajK, tPhoneB, tEmailDLoose, <<"T", numberToString(i)[1]>>, <<"4","0">>)]

\* what a process never writes
processFrame == <<scrapeVars, arpitGroupMembers, previousyearparticipants, dashboardStats,
                  runVars, runsDone, lastLinks>>

\* process.exit(code)
Exit(proc, code, step) ==
    [proc EXCEPT !.pc = "exited", !.exitCode = code, !.failed = @ \cup step]

\* await this.initBrowser(); await this.login()
Login(p) ==
    /\ procs[p].pc = "start"
    /\ procs' = [procs EXCEPT ![p].pc = "loggedIn", ![p].log = Append(@, "login")]
    /\ UNCHANGED <<processFrame, registrationDetails, eventSummaries, cpc>>

\* initBrowser or login throws: the catch of run calls process.exit(1)
LoginFails(p) ==
    /\ procs[p].pc = "start"
    /\ procs' = [procs EXCEPT ![p] = Exit(@, 1, {"login"})]
    /\ UNCHANGED <<processFrame, registrationDetails, eventSummaries, cpc>>

\* const events = await this.scrapeEventSummary(): the parsed events, or [] from its
\* catch when the request or the parsing throws
ScrapeEventSummary(p) ==
    /\ procs[p].pc = "loggedIn"
    /\ \E threw \in BOOLEAN : \E parsed \in {<< >>, <<EventOf(p)>>} :
          /\ threw => parsed = << >>
          /\ procs' = [procs EXCEPT ![p].pc = "eventsScraped", ![p].events = parsed,
                          ![p].log = Append(@, "scrapeEventSummary"),
                          ![p].failed = IF threw THEN @ \cup {"scrapeEventSummary"} ELSE @]
    /\ UNCHANGED <<processFrame, registrationDetails, eventSummaries, cpc>>

\* const registrations = await this.scrapeRegistrationDetails(): the parsed records, or
\* [] from its catch
ScrapeRegistrationDetails(p) ==
    /\ procs[p].pc = "eventsScraped"
    /\ \E threw \in BOOLEAN : \E parsed \in {<< >>, ReportOf(p)} :
          /\ threw => parsed = << >>
          /\ procs' = [procs EXCEPT ![p].pc = "scraped", ![p].registrations = parsed,
                          ![p].log = Append(@, "scrapeRegistrationDetails"),
                          ![p].failed = IF threw THEN @ \cup {"scrapeRegistrationDetails"}
                                        ELSE @]
    /\ UNCHANGED <<processFrame, registrationDetails, eventSummaries, cpc>>

\* saveToDatabase: connect, and eventSummaries.deleteMany({}) when events.length > 0
DeleteEvents(p) ==
    /\ procs[p].pc = "scraped"
    /\ IF Len(procs[p].events) > 0
       THEN /\ eventSummaries' = << >>
            /\ procs' = [procs EXCEPT ![p].pc = "eventsDeleted"]
       ELSE /\ eventSummaries' = eventSummaries
            /\ procs' = [procs EXCEPT ![p].pc = "eventsSaved"]
    /\ UNCHANGED <<processFrame, registrationDetails, cpc>>

\* eventSummaries.insertMany(events)
InsertEvents(p) ==
    /\ procs[p].pc = "eventsDeleted"
    /\ eventSummaries' = eventSummaries \o procs[p].events
    /\ procs' = [procs EXCEPT ![p].pc = "eventsSaved"]
    /\ UNCHANGED <<processFrame, registrationDetails, cpc>>

\* a plausible slip: the collection is cleared whatever the scrape returned
DeleteRegistrationsUnguarded(p) ==
    /\ procs[p].pc = "eventsSaved"
    /\ registrationDetails' = << >>
    /\ procs' = [procs EXCEPT ![p].pc = "registrationsDeleted"]
    /\ UNCHANGED <<processFrame, eventSummaries, cpc>>

\* registrationDetails.deleteMany({}) when registrations.length > 0; with no records the
\* save goes straight to the fetch log and returns
DeleteRegistrations(p) ==
    /\ procs[p].pc = "eventsSaved"
    /\ IF Len(procs[p].registrations) > 0
       THEN /\ registrationDetails' = << >>
            /\ procs' = [procs EXCEPT ![p].pc = "registrationsDeleted"]
       ELSE /\ registrationDetails' = registrationDetails
            /\ procs' = [procs EXCEPT ![p].pc = "saved",
                            ![p].log = Append(@, "saveToDatabase")]
    /\ UNCHANGED <<processFrame, eventSummaries, cpc>>

\* the indexes are dropped, registrationDetails.insertMany(registrations), the fetch log
\* is written and saveToDatabase returns
InsertRegistrations(p) ==
    /\ procs[p].pc = "registrationsDeleted"
    /\ registrationDetails' = registrationDetails \o procs[p].registrations
    /\ procs' = [procs EXCEPT ![p].pc = "saved", ![p].log = Append(@, "saveToDatabase")]
    /\ UNCHANGED <<processFrame, eventSummaries, cpc>>

\* an await of saveToDatabase throws: its catch logs and rethrows, the catch of run
\* calls process.exit(1)
SaveFails(p) ==
    /\ procs[p].pc \in SavePositions
    /\ procs' = [procs EXCEPT ![p] = Exit(@, 1, {"saveToDatabase"})]
    /\ UNCHANGED <<processFrame, registrationDetails, eventSummaries, cpc>>

\* a plausible slip: the stats are calculated as soon as the scrapes have returned
StartStatsBeforeSave(p) ==
    /\ procs[p].pc \in {"scraped", "saved"}
    /\ cpc = "idle" /\ runsDone < MaxRuns
    /\ \A q \in DOMAIN procs : procs[q].pc # "stats"
    /\ procs' = [procs EXCEPT ![p].pc = "stats", ![p].statsFrom = runsDone,
                    ![p].log = Append(@, "calculateDashboardStats")]
    /\ UNCHANGED <<processFrame, registrationDetails, eventSummaries, cpc>>

\* run() has resolved: main calls calculateDashboardStats
StartStats(p) ==
    /\ procs[p].pc = "saved"
    /\ cpc = "idle" /\ runsDone < MaxRuns
    /\ \A q \in DOMAIN procs : procs[q].pc # "stats"
    /\ procs' = [procs EXCEPT ![p].pc = "stats", ![p].statsFrom = runsDone,
                    ![p].log = Append(@, "calculateDashboardStats")]
    /\ UNCHANGED <<processFrame, registrationDetails, eventSummaries, cpc>>

\* the stats run of a process is under way
StatsRunning == \E p \in DOMAIN procs : procs[p].pc = "stats" /\ procs[p].statsFrom = runsDone

\* calculateDashboardStats has resolved, or has rejected into the catch of main that only
\* logs: process.exit(0)
FinishStats(p) ==
    /\ procs[p].pc = "stats"
    /\ \/ cpc = "idle" /\ runsDone > procs[p].statsFrom
       \/ cpc = "failed"
    /\ procs' = [procs EXCEPT ![p] =
                    Exit(@, 0, IF cpc = "failed" THEN {"calculateDashboardStats"} ELSE {})]
    /\ cpc' = "idle"
    /\ UNCHANGED <<processFrame, registrationDetails, eventSummaries>>

NextProcess ==
    \/ \E p \in DOMAIN procs : Login(p)
    \/ \E p \in DOMAIN procs : LoginFails(p)
    \/ \E p \in DOMAIN procs : ScrapeEventSummary(p)
    \/ \E p \in DOMAIN procs : ScrapeRegistrationDetails(p)
    \/ \E p \in DOMAIN procs : DeleteEvents(p)
    \/ \E p \in DOMAIN procs : InsertEvents(p)
    \/ \E p \in DOMAIN procs : DeleteRegistrations(p)
    \/ \E p \in DOMAIN procs : InsertRegistrations(p)
    \/ \E p \in DOMAIN procs : SaveFails(p)
    \/ \E p \in DOMAIN procs : StartStats(p)
    \/ \E p \in DOMAIN procs : FinishStats(p)
    \/ (StatsRunning /\ FetchData)
    \/ MatchMember \/ CalculateStatistics \/ ClearOldStats \/ InsertStats
    \/ (StatsRunning /\ CatchError)

\* the collections before the processes start
StoredBefore ==
    /\ ScrapeIdle /\ RunIdle
    /\ registrationDetails \in
           {<< >>, <<Registration(tDishaDaga, tPhoneA, tEmailD, tT1, <<"4","5">>)>>}
    /\ eventSummaries \in {<< >>, <<EventOf(0)>>}
    /\ arpitGroupMembers = <<Member(tDishaDaga, tPhoneA, Str0, "YG")>>
    /\ previousyearparticipants = << >>
    /\ dashboardStats = << >>

\* one scraper process
InitProcess == StoredBefore /\ procs = <<NewProcess>>

SpecProcess == InitProcess /\ [][NextProcess]_vars

\* the scheduled run and a manually or externally dispatched run, overlapping
InitOverlap == StoredBefore /\ procs = <<NewProcess, NewProcess>>

SpecOverlap == InitOverlap /\ [][NextProcess]_vars

(***************************************************************************)
(* Stored registrations as the scraper writes them (baseRecord), of both   *)
(* form versions, with and without referral fields, with transaction dates *)
(* before the cutoff, at the cutoff, empty, and of another shape.          *)
(***************************************************************************)
tCutoffDate == <<"0","9","-","1","0","-","2","0","2","5"," ","0","0",":","0","0",":","0","0">>
tSlashDate == <<"2","0","2","5","/","1","0","/","0","8">>
TransDateInputs == {tTransDate, tCutoffDate, Str0, tSlashDate}

NoInvitees ==
    [f \in {InviteeKeys[i].name : i \in 1..MaxInvitees}
           \cup {InviteeKeys[i].mobile : i \in 1..MaxInvitees}
           \cup {InviteeKeys[i].email : i \in 1..MaxInvitees} |-> Str0]

\* two invitee slots filled: slot 1 with a name and a mobile number, slot 4 with an email
TwoInvitees ==
    Merge(NoInvitees, [name_1 |-> tRajK, mobile_number_1 |-> tPhoneB, email_id_4 |-> tEmailD])

\* a stored document: the fields of baseRecord the stats run and its claims look at
StoredRegistration(id, first, last, full, date, invitees) ==
    Merge([Trans_Id |-> id, registrationId |-> id, Trans_Date |-> date,
           first_name |-> first, last_name |-> last, full_name |-> full,
           customerName |-> trim(first \o <<" ">> \o last),
           phone |-> tPhoneA, primary_phoneNo |-> tPhoneA, email |-> Str0,
           age |-> <<"0">>, Ticket_Qty |-> 1],
          invitees)

\* the form of the Early Bird phase: discrete name cells, referral fields offered
OldFormRegistration(date, invitees) ==
    StoredRegistration(tT1, tDisha, tDaga, Str0, date, invitees)

\* the current form: the name cells are empty and the name comes from full_name
\* (split into first and last name by the scraper); no referral fields
CurrentFormRegistration(date) ==
    StoredRegistration(tT2, <<"D","i","v","a">>, <<"S","h","e","t","h">>, tDivaSheth,
                       date, NoInvitees)

DatedRegistrationInputs ==
    {OldFormRegistration(d, inv) : d \in TransDateInputs, inv \in {NoInvitees, TwoInvitees}}
    \cup {CurrentFormRegistration(d) : d \in TransDateInputs}

\* the collections hold dated registrations and a one-member roster; no run yet
InitTrend ==
    /\ ScrapeIdle
    /\ registrationDetails \in SeqsUpTo(DatedRegistrationInputs, MaxRegs)
    /\ arpitGroupMembers = <<Member(tDishaDaga, tPhoneA, Str0, "YG")>>
    /\ previousyearparticipants = << >>
    /\ dashboardStats = << >>
    /\ RunIdle
    /\ NoProcess

SpecTrend == InitTrend /\ [][Next]_vars

(***************************************************************************)
(* Rosters for the per-group figures: members of fixed groups, of a group  *)
(* outside the fixed set and without a group; an entry may occur twice.    *)
(***************************************************************************)
GroupMemberInputs ==
    {Member(tDishaDagaLoose, tPhoneAPlus, Str0, "YG"),
     Member(tDishaDaga, Str0, tEmailDLoose, "SG"),
     Member(tNobody, tPhoneB, Str0, "XX"),
     Member(tRajK, tPhoneB, tEmailDLoose, ""),
     Member(tNobody, Str0, Str0, "HG")}

GroupRegistrationInputs ==
    {Registration(tDishaDaga, tPhoneA, tEmailD, tT1, <<"4","5">>),
     Registration(tRajK, tPhoneB, tEmailDLoose, <<"T","3">>, <<"4","0">>)}

InitGroups ==
    /\ ScrapeIdle
    /\ registrationDetails \in SeqsUpTo(GroupRegistrationInputs, MaxRegs)
    /\ arpitGroupMembers \in SeqsUpTo(GroupMemberInputs, MaxMembers)
    /\ previousyearparticipants = << >>
    /\ dashboardStats = << >>
    /\ RunIdle
    /\ NoProcess

SpecGroups == InitGroups /\ [][Next]_vars

\* the same collections, with runs that may fail at any await
NextFail == Next \/ CatchError

SpecFail == InitGroups /\ [][NextFail]_vars

(***************************************************************************)
(* Registrations for the age buckets: ages at, above and below the         *)
(* threshold, zero, negative, not a number and absent, of people with and  *)
(* without a phone number a previous participant has.                      *)
(***************************************************************************)
tAge45 == <<"4","5">>
tAge40 == <<"4","0">>
tAge39 == <<"3","9">>
tAge0 == <<"0">>
tAgeNegative == <<"-","5">>
tAgeWords == <<"a","d","u","l","t">>

Without(doc, field) == [f \in DOMAIN doc \ {field} |-> doc[f]]

AgedRegistrationInputs ==
    {Registration(tRajK, Str0, Str0, tT1, age) :
        age \in {tAge45, tAge40, tAge39, tAge0, tAgeNegative, tAgeWords}}
    \cup {Without(Registration(tRajK, Str0, Str0, tT1, Str0), "age")}
    \cup {Registration(tDivaSheth, tPhoneA, Str0, tT2, age) : age \in {tAge45, tAge39, tAgeWords}}

InitAge ==
    /\ ScrapeIdle
    /\ registrationDetails \in SeqsUpTo(AgedRegistrationInputs, MaxRegs)
    /\ arpitGroupMembers = <<Member(tDishaDaga, tPhoneA, Str0, "YG")>>
    /\ previousyearparticipants \in {<< >>, <<Participant(tPhoneA91, {2023})>>}
    /\ dashboardStats = << >>
    /\ RunIdle
    /\ NoProcess

SpecAge == InitAge /\ [][Next]_vars

(***************************************************************************)
(* The percentages as a function of the counters: the counters of line 245 *)
(* are any split of a total of up to MaxTotal registrations into members   *)
(* and non-members, returning and first-timers, and of the first-timers    *)
(* into the three age buckets.                                             *)
(***************************************************************************)
Counters(total, members, returning, above, under) ==
    [calculated |-> TRUE,
     totalRegistrations |-> total,
     mumukshus |-> members,
     nonMumukshus |-> total - members,
     firstTimers |-> total - returning,
     returningParticipants |-> returning,
     above40 |-> above,
     under40 |-> under,
     unknownAge |-> (total - returning) - above - under]

InitPercent ==
    /\ ScrapeIdle /\ StoreEmpty /\ NoProcess
    /\ registrations = << >> /\ arpitMembers = << >> /\ previousParticipants = << >>
    /\ memberIdx = 1 /\ arpitMemberRegistrations = << >> /\ usedRegistrationIds = {}
    /\ previousPhoneMap = {} /\ flags = << >>
    /\ \E total \in 0..MaxTotal : \E members \in 0..total : \E returning \in 0..total :
         \E above \in 0..(total - returning) : \E under \in 0..(total - returning - above) :
            stats = Counters(total, members, returning, above, under)
    /\ cpc = "counted"
    /\ runsDone = 0
    /\ lastLinks = {}

\* lines 250-258 applied to the counters
CalculatePercentages ==
    /\ cpc = "counted"
    /\ stats' = Merge(stats, percentagesOf(stats))
    /\ cpc' = "percentages"
    /\ UNCHANGED <<scrapeVars, procVars, storeVars, dashboardStats, registrations, arpitMembers,
                   previousParticipants, memberIdx, arpitMemberRegistrations,
                   usedRegistrationIds, previousPhoneMap, flags, runsDone, lastLinks>>

NextPercent == CalculatePercentages

SpecPercent == InitPercent /\ [][NextPercent]_vars

(***************************************************************************)
(* Properties of scrapeRegistrationDetails                                 *)
(***************************************************************************)

\* C3: every record emitted for a row with at least 45 cells has a non-empty
\* customerName, whatever the first-name, last-name, full-name, complimentary
\* full-name and transaction-id cells hold.
C3_DisplayNameNonEmpty ==
    \A i \in 1..Len(scraped) : scraped[i].customerName # Str0

\* C3 witness: a row of at least 45 cells with every name cell and the transaction
\* id empty has been parsed into a record.
C3_Witness ==
    /\ spc = "returned" /\ Len(rows) = 1 /\ Len(rows[1]) >= MinCells
    /\ Cell(rows[1], 20) = Str0 /\ Cell(rows[1], 21) = Str0 /\ Cell(rows[1], 45) = Str0
    /\ Cell(rows[1], 49) = Str0 /\ Cell(rows[1], 2) = Str0
    /\ Len(scraped) >= 1

\* C21: whenever the first-name or the last-name cell of a row is non-empty, the
\* record's first name, last name and display name come from those two cells,
\* whatever the full-name cell, the complimentary test and the complimentary
\* full-name cell hold.
C21_DiscreteNameWins ==
    (spc = "returned" /\ Len(rows) = 1 /\ Len(rows[1]) >= MinCells
        /\ (Cell(rows[1], 20) # Str0 \/ Cell(rows[1], 21) # Str0))
    => \A i \in 1..Len(scraped) :
          /\ scraped[i].first_name = Cell(rows[1], 20)
          /\ scraped[i].last_name = Cell(rows[1], 21)
          /\ scraped[i].customerName
                = trim(Cell(rows[1], 20) \o <<" ">> \o Cell(rows[1], 21))

\* C4: a complimentary row with quantity Q > 1 and transaction id T yields exactly Q
\* records, identified T_comp_1 .. T_comp_Q in that order, each with quantity 1 and
\* otherwise identical fields; a non-complimentary row yields exactly 1 record.
C4_Expansion ==
    (Len(rows) = 1 /\ rowIdx > 1 /\ Len(rows[1]) >= MinCells) =>
        LET cells == rows[1]
            T == Cell(cells, 2)
            Q == TicketQtyOf(cells)
        IN /\ (isComplimentary(cells) /\ Q > 1) =>
                /\ Len(scraped) = Q
                /\ \A k \in 1..Q :
                     /\ scraped[k].registrationId
                            = T \o <<"_","c","o","m","p","_">> \o <<DigitChars[k + 1]>>
                     /\ scraped[k].Ticket_Qty = 1
                     /\ scraped[k].quantity = 1
                     /\ \A f \in DOMAIN scraped[k] \ {"registrationId"} :
                            scraped[k][f] = scraped[1][f]
           /\ ~isComplimentary(cells) => Len(scraped) = 1

\* C4 witness: a complimentary row with quantity 3 has been expanded.
C4_Witness ==
    /\ Len(rows) = 1 /\ spc = "returned" /\ Len(rows[1]) >= MinCells
    /\ CellText(rows[1], 10) = tQty3 /\ CellText(rows[1], 11) = tAmt0
    /\ Len(scraped) = 3
    /\ scraped[3].registrationId = <<"T","1","_","c","o","m","p","_","3">>

\* C5 as stated: a row that is non-complimentary, or whose quantity is <= 1, yields one
\* record whose identifier is the original transaction id and whose ticket quantity
\* equals the quantity reported in the row.
C5_QuantityKept ==
    (Len(rows) = 1 /\ rowIdx > 1 /\ Len(rows[1]) >= MinCells
        /\ (~isComplimentary(rows[1]) \/ TicketQtyOf(rows[1]) <= 1)) =>
        /\ Len(scraped) = 1
        /\ scraped[1].registrationId = Cell(rows[1], 2)
        /\ scraped[1].Ticket_Qty = TicketQtyOf(rows[1])

\* C5 amended: such a row yields one record whose identifier is the original
\* transaction id and whose ticket quantity is 1, whatever quantity the row reports.
C5_PassThrough ==
    (Len(rows) = 1 /\ rowIdx > 1 /\ Len(rows[1]) >= MinCells
        /\ (~isComplimentary(rows[1]) \/ TicketQtyOf(rows[1]) <= 1)) =>
        /\ Len(scraped) = 1
        /\ scraped[1].registrationId = Cell(rows[1], 2)
        /\ scraped[1].Ticket_Qty = 1
        /\ scraped[1].quantity = 1

\* C5 witness: a paid row reporting quantity 3 has been parsed.
C5_Witness ==
    /\ Len(rows) = 1 /\ spc = "returned" /\ Len(rows[1]) >= MinCells
    /\ CellText(rows[1], 10) = tQty3 /\ CellText(rows[1], 11) = tAmtPaid
    /\ Cell(rows[1], 9) = Str0 /\ Cell(rows[1], 2) = tT1
    /\ Len(scraped) = 1

\* C6: applying the second pass again to the records it returned changes no field
\* of any record.
C6_BackfillIdempotent ==
    spc = "returned" => SecondPassRecords(scraped) = scraped

\* C7: the second pass never changes a per-person field, never changes a field of the
\* primary record, never changes a transaction-level field that already held a
\* non-empty, non-zero value, and leaves records in groups of size 1 untouched.
C7_BackfillFrame ==
    [][(spc = "rows" /\ spc' = "returned") =>
        /\ Len(scraped') = Len(scraped)
        /\ \A i \in 1..Len(scraped) :
             LET group == {j \in 1..Len(scraped) : scraped[j].Trans_Id = scraped[i].Trans_Id}
                 complete == {j \in group :
                                /\ scraped[j].Trans_Date # Str0 /\ scraped[j].Cinema_Name # Str0
                                /\ scraped[j].Event_Name # Str0 /\ scraped[j].Show_Date_Disp # Str0
                                /\ scraped[j].Ticket_Qty > 0}
                 candidates == IF complete # {} THEN complete ELSE group
                 isPrimary == \A j \in candidates : i <= j
             IN /\ \A f \in {"first_name", "last_name", "customerName", "full_name", "FullName",
                             "phone", "primary_phoneNo", "MobileNumber",
                             "email", "primary_email", "age"} :
                        scraped'[i][f] = scraped[i][f]
                /\ (isPrimary /\ i \in candidates) => scraped'[i] = scraped[i]
                /\ Cardinality(group) = 1 => scraped'[i] = scraped[i]
                /\ \A f \in fieldsToFill :
                        (IF f \in NumberFields THEN scraped[i][f] # 0 ELSE scraped[i][f] # Str0)
                            => scraped'[i][f] = scraped[i][f]
    ]_vars

\* C7 witness: the second pass has filled a missing field of a sibling in a group of
\* two rows sharing a Trans_Id, whose other fields held values.
C7_Witness ==
    /\ spc = "returned" /\ filledCount > 0 /\ Len(scraped) = 2
    /\ scraped[1].Trans_Id = scraped[2].Trans_Id
    /\ scraped[1].registrationId = scraped[2].registrationId
    /\ scraped[1].Seat_Info # scraped[2].Seat_Info

\* C25: in a group of more than one record sharing a Trans_Id, the source of the
\* second pass is the first record of the group whose Trans_Date, Cinema_Name,
\* Event_Name, Show_Date_Disp and Ticket_Qty are all non-empty/non-zero, or the first
\* record of the group when none is; after the pass every transaction field of a
\* sibling that was empty or zero equals the primary's value for that field.
C25_BackfillFromPrimary ==
    [][(spc = "rows" /\ spc' = "returned") =>
        \A i \in 1..Len(scraped) :
            LET group == {j \in 1..Len(scraped) : scraped[j].Trans_Id = scraped[i].Trans_Id}
                qualifies == {j \in group :
                                /\ scraped[j].Trans_Date # Str0 /\ scraped[j].Cinema_Name # Str0
                                /\ scraped[j].Event_Name # Str0 /\ scraped[j].Show_Date_Disp # Str0
                                /\ scraped[j].Ticket_Qty # 0}
                source == IF qualifies # {} THEN qualifies ELSE group
                primary == CHOOSE j \in source : \A k \in source : j <= k
            IN (Cardinality(group) > 1 /\ i # primary) =>
                  \A f \in fieldsToFill :
                      (IF f \in NumberFields THEN scraped[i][f] = 0 ELSE scraped[i][f] = Str0)
                          => /\ scraped'[i][f] = scraped[primary][f]
                             /\ scraped'[i][f] = scraped'[primary][f]
    ]_vars

\* C25 witness: of two rows sharing a Trans_Id the first came without a date and the
\* second with date and venue; the pass has filled the first from the second.
C25_Witness ==
    /\ spc = "returned" /\ Len(rows) = 2 /\ Len(scraped) = 2 /\ filledCount > 0
    /\ Cell(rows[1], 2) = Cell(rows[2], 2)
    /\ Cell(rows[1], 4) = Str0 /\ Cell(rows[2], 4) # Str0 /\ Cell(rows[2], 5) # Str0
    /\ scraped[1].Trans_Date = scraped[2].Trans_Date

C17_DistinctIds ==
    \A i \in 1..Len(scraped) : \A j \in 1..Len(scraped) :
        i # j => scraped[i].registrationId # scraped[j].registrationId

(***************************************************************************)
(* Properties of calculateDashboardStats                                   *)
(***************************************************************************)

\* C1: once the matching loop has processed the roster, every member is paired with at
\* most one registration and every registration with at most one member, also when
\* several registrations share one transaction id.
C1_OneToOne ==
    (cpc \in {"saving", "inserting"}) =>
        \A l1 \in MatchLinks : \A l2 \in MatchLinks :
            /\ (l1[1] = l2[1] => l1[2] = l2[2])
            /\ (l1[2] = l2[2] => l1[1] = l2[1])

\* C2: when exactly one not-yet-claimed registration has the member's normalized name
\* and it shares neither phone10 nor normalized email with the member, the matching
\* step pairs the member with that registration.
C2_NameOnlyAccepted ==
    [][(cpc = "matching" /\ memberIdx <= Len(arpitMembers) /\ memberIdx' = memberIdx + 1) =>
        LET member == arpitMembers[memberIdx]
            name == trim(toLowerCase(member.fullName))
            candidates == {r \in 1..Len(registrations) :
                             /\ registrations[r].registrationId \notin usedRegistrationIds
                             /\ name # Str0
                             /\ trim(toLowerCase(registrations[r].customerName)) = name}
        IN \A r \in candidates :
              (candidates = {r} /\ scoreOf(member, registrations[r]) = 0) =>
                  /\ registrations[r].registrationId \in DOMAIN arpitMemberRegistrations'
                  /\ arpitMemberRegistrations'[registrations[r].registrationId] = memberIdx
    ]_vars

\* the not-yet-claimed registrations that have the member's normalized name
nameCandidatesOf(member, regs, used) ==
    {r \in 1..Len(regs) :
        /\ regs[r].registrationId \notin used
        /\ normalized(member.fullName) # Str0
        /\ normalized(regs[r].customerName) = normalized(member.fullName)}

\* C22: when two or more not-yet-claimed registrations have the member's normalized
\* name and none of them shares the member's phone10 or normalized email, the matching
\* step links none of them to the member.
C22_CollisionLeftUnmatched ==
    [][(cpc = "matching" /\ memberIdx <= Len(arpitMembers) /\ memberIdx' = memberIdx + 1) =>
        LET member == arpitMembers[memberIdx]
            candidates == nameCandidatesOf(member, registrations, usedRegistrationIds)
        IN (/\ Cardinality(candidates) >= 2
            /\ \A r \in candidates : scoreOf(member, registrations[r]) = 0)
           => \A r \in candidates :
                 ~(/\ registrations[r].registrationId \in DOMAIN arpitMemberRegistrations'
                   /\ arpitMemberRegistrations'[registrations[r].registrationId] = memberIdx)
    ]_vars

\* the registration the stated order selects for a member: (a) the highest-scoring
\* name candidate, the earliest among equal top scores, accepted when its score is
\* positive or it is the only candidate; (b) the first unclaimed registration with the
\* member's phone10; (c) the first unclaimed registration with the member's normalized
\* email; 0 when no step yields one
selectedInOrder(member, regs, used) ==
    LET candidates == nameCandidatesOf(member, regs, used)
        top == CHOOSE n \in 0..5 :
                  /\ \A r \in candidates : scoreOf(member, regs[r]) <= n
                  /\ (candidates # {} => \E r \in candidates : scoreOf(member, regs[r]) = n)
                  /\ (candidates = {} => n = 0)
        stepA == IF candidates # {} /\ (top > 0 \/ Cardinality(candidates) = 1)
                 THEN FirstOf({r \in candidates : scoreOf(member, regs[r]) = top}) ELSE 0
        phone10 == matchPhone10(member.mobileNumber)
        stepB == IF phone10 # Str0
                 THEN FirstOf({r \in 1..Len(regs) :
                          /\ regs[r].registrationId \notin used
                          /\ matchPhone10(regPhoneOf(regs[r])) = phone10}) ELSE 0
        stepC == IF normalized(member.email) # Str0
                 THEN FirstOf({r \in 1..Len(regs) :
                          /\ regs[r].registrationId \notin used
                          /\ normalized(regs[r].email) = normalized(member.email)}) ELSE 0
    IN IF stepA # 0 THEN stepA ELSE IF stepB # 0 THEN stepB ELSE stepC

\* C23: each matching step links the member to the registration selected by the first
\* of the steps name (highest score, earliest on ties), phone10, email that yields one,
\* among the registrations not claimed by an earlier member, and to none when no step
\* yields one.
C23_SelectionOrder ==
    [][(cpc = "matching" /\ memberIdx <= Len(arpitMembers) /\ memberIdx' = memberIdx + 1) =>
        LET selected == selectedInOrder(arpitMembers[memberIdx], registrations,
                                        usedRegistrationIds)
        IN IF selected = 0
           THEN arpitMemberRegistrations' = arpitMemberRegistrations
           ELSE /\ registrations[selected].registrationId \notin usedRegistrationIds
                /\ arpitMemberRegistrations' =
                       MapSet(arpitMemberRegistrations,
                              registrations[selected].registrationId, memberIdx)
    ]_vars

\* the digits of a phone text, and its last 10 digits
digitsOf(phoneText) == SelectSeq(phoneText, IsDigit)
lastTenDigitsOf(phoneText) == sliceLast(digitsOf(phoneText), Phone10Len)

\* C24: the matcher's phone10 of a phone text with at least 10 digits is its last 10
\* digits, so a member and a registration holding the same 10-digit number, with or
\* without a +91 prefix on either side, have equal non-null keys and are linked by
\* the phone step.
C24_Phone10IsLastTenDigits ==
    (cpc = "matching" /\ memberIdx > Len(arpitMembers)) =>
        \A m \in 1..Len(arpitMembers) : \A r \in 1..Len(registrations) :
            LET memberPhone == arpitMembers[m].mobileNumber
                regPhone == regPhoneOf(registrations[r])
            IN /\ Len(digitsOf(memberPhone)) >= Phone10Len
                    => matchPhone10(memberPhone) = lastTenDigitsOf(memberPhone)
               /\ Len(digitsOf(regPhone)) >= Phone10Len
                    => matchPhone10(regPhone) = lastTenDigitsOf(regPhone)
               /\ (/\ Len(digitsOf(memberPhone)) >= Phone10Len
                   /\ lastTenDigitsOf(memberPhone) = lastTenDigitsOf(regPhone))
                    => <<r, m>> \in MatchLinks

C9_ReturningByOwnPhone ==
    (cpc \in {"saving", "inserting"}) =>
        /\ Len(flags) = Len(registrations)
        /\ \A r \in 1..Len(registrations) :
             flags[r].isReturning <=>
                 \E p \in 1..Len(previousyearparticipants) :
                     /\ previousyearparticipants[p].years # {}
                     /\ statsPhone10(previousyearparticipants[p].phone) # Str0
                     /\ statsPhone10(previousyearparticipants[p].phone)
                            = statsPhone10(regPhoneOf(registrations[r]))

\* C9 witness: two registrations with the same phone10 are both flagged returning, one
\* of them claimed by a member and the other not.
C9_Witness ==
    /\ cpc = "saving" /\ Len(registrations) = 2
    /\ flags[1].isReturning /\ flags[2].isReturning
    /\ registrations[1].registrationId # registrations[2].registrationId
    /\ flags[1].isMumukshu /\ ~flags[2].isMumukshu

\* the sum of groupBreakdown over the groups
groupBreakdownSum(snapshot) ==
    snapshot.groupBreakdown["YG"] + snapshot.groupBreakdown["SG"]
        + snapshot.groupBreakdown["JG"] + snapshot.groupBreakdown["HG"]

\* C26: in every stored snapshot mumukshus equals arpitRegistrationStats.registered,
\* the sum of groupBreakdown does not exceed it, and registered + notRegistered is the
\* roster size, also when several registrations share a registrationId.
C26_MemberCountsAgree ==
    \A d \in 1..Len(dashboardStats) :
        /\ dashboardStats[d].mumukshus = dashboardStats[d].arpitRegistered
        /\ groupBreakdownSum(dashboardStats[d]) <= dashboardStats[d].arpitRegistered
        /\ dashboardStats[d].arpitRegistered + dashboardStats[d].arpitNotRegistered
              = Len(arpitGroupMembers)

\* C27: when a run has failed, the statistics store holds the snapshot it held before
\* that run started: the snapshot of the last completed run, or nothing when no run
\* had completed.
C27_FailedRunKeepsSnapshot ==
    cpc = "failed" =>
        IF runsDone = 0 THEN dashboardStats = << >>
        ELSE /\ Len(dashboardStats) = 1
             /\ dashboardStats[1].calculatedAt = runsDone

\* C10: in every snapshot, total is the number of registration records, mumukshus +
\* nonMumukshus = total and firstTimers + returningParticipants = total.
C10_Partitions ==
    /\ (cpc \in {"saving", "inserting"}) =>
          /\ stats.totalRegistrations = Len(registrationDetails)
          /\ stats.mumukshus + stats.nonMumukshus = stats.totalRegistrations
          /\ stats.firstTimers + stats.returningParticipants = stats.totalRegistrations
    /\ \A d \in 1..Len(dashboardStats) :
          /\ dashboardStats[d].totalRegistrations = Len(registrationDetails)
          /\ dashboardStats[d].mumukshus + dashboardStats[d].nonMumukshus
                = dashboardStats[d].totalRegistrations
          /\ dashboardStats[d].firstTimers + dashboardStats[d].returningParticipants
                = dashboardStats[d].totalRegistrations

\* C10 witness: a stored snapshot counts two registrations, one member and one
\* non-member, one returning and one first-timer without a phone.
C10_Witness ==
    /\ Len(dashboardStats) = 1
    /\ dashboardStats[1].totalRegistrations = 2
    /\ dashboardStats[1].mumukshus = 1 /\ dashboardStats[1].nonMumukshus = 1
    /\ dashboardStats[1].returningParticipants = 1 /\ dashboardStats[1].firstTimers = 1
    /\ \E r \in 1..Len(registrationDetails) : registrationDetails[r].phone = Str0

\* C11: whenever total > 0, the member and non-member percentages sum to 100 within
\* 0.02, and so do the first-timer and returning percentages; whenever firstTimers > 0,
\* the three age-bucket percentages sum to 100 within 0.03 (percentages in hundredths).
C11_PercentagesSum ==
    ("mumukshusPercentage" \in DOMAIN stats) =>
        LET whole == PercentScale * FixedDigitsScale
            Within(x, eps) == x - whole <= eps /\ whole - x <= eps
        IN /\ stats.totalRegistrations > 0 =>
                /\ Within(stats.mumukshusPercentage + stats.nonMumukshusPercentage, 2)
                /\ Within(stats.firstTimersPercentage + stats.returningPercentage, 2)
           /\ stats.firstTimers > 0 =>
                Within(stats.above40Percentage + stats.under40Percentage
                          + stats.unknownAgePercentage, 3)

\* C11 witness: the rounded parts do not sum to exactly 100: 1 member of 32 gives
\* 3.13 + 96.88, and three equal age buckets give 3 x 33.33.
C11_Witness ==
    /\ cpc = "percentages"
    /\ stats.totalRegistrations = 32 /\ stats.mumukshus = 1
    /\ stats.mumukshusPercentage = 313 /\ stats.nonMumukshusPercentage = 9688
    /\ stats.firstTimers = 3 /\ stats.above40Percentage = 3333
    /\ stats.under40Percentage = 3333 /\ stats.unknownAgePercentage = 3333

\* C16: after any number of stats runs executed one after another, each having
\* returned, the statistics store holds exactly one snapshot, the one the most recent
\* run computed.
C16_SingleLatestSnapshot ==
    (cpc = "idle" /\ runsDone >= 1) =>
        /\ Len(dashboardStats) = 1
        /\ dashboardStats[1] = stats
        /\ dashboardStats[1].calculatedAt = runsDone

\* C16 witness: a second run has returned over a store that held the snapshot of the
\* first run.
C16_Witness ==
    /\ cpc = "idle" /\ runsDone = 2
    /\ Len(dashboardStats) = 1 /\ dashboardStats[1].calculatedAt = 2
    /\ dashboardStats[1].totalRegistrations = 2

\* C18: for each fixed group g, registered + notRegistered of g is the number of
\* roster members whose group is g, whatever the matching outcome; members without a
\* group or of a group outside the fixed set are counted in no group.
C18_GroupTotals ==
    (cpc \in {"saving", "inserting"}) =>
        \A g \in GroupNames :
            stats.groupRegistrationStats[g].registered
              + stats.groupRegistrationStats[g].notRegistered
            = Count({m \in 1..Len(arpitGroupMembers) : arpitGroupMembers[m].group = g})

\* C18 witness: a roster of a matched YG member and a matched member without a group:
\* YG counts one member, no other group counts any.
C18_Witness ==
    /\ cpc = "saving" /\ Len(arpitGroupMembers) = 2
    /\ arpitGroupMembers[1].group = "YG" /\ arpitGroupMembers[2].group = ""
    /\ Count(DOMAIN arpitMemberRegistrations) = 2
    /\ stats.groupRegistrationStats["YG"].registered = 1
    /\ \A g \in GroupNames \ {"YG"} :
          stats.groupRegistrationStats[g].registered
            + stats.groupRegistrationStats[g].notRegistered = 0

\* C20: for each fixed group g, registered of g is the number of roster members of
\* group g that hold a link to a registration, for any roster, so the registered
\* figures together never exceed the number of matched members.
C20_RegisteredAreMatched ==
    (cpc \in {"saving", "inserting"}) =>
        /\ \A g \in GroupNames :
              stats.groupRegistrationStats[g].registered
              = Count({m \in 1..Len(arpitMembers) :
                         arpitMembers[m].group = g /\ \E l \in MatchLinks : l[2] = m})
        /\ stats.groupRegistrationStats["YG"].registered
             + stats.groupRegistrationStats["SG"].registered
             + stats.groupRegistrationStats["JG"].registered
             + stats.groupRegistrationStats["HG"].registered
           <= Count({m \in 1..Len(arpitMembers) : \E l \in MatchLinks : l[2] = m})

\* C19: every first-timer registration is counted in exactly one age bucket: above40
\* when its age is 40 or more, under40 when 0 < age < 40, unknownAge when its age is
\* absent, not a number or not positive; returning registrations are counted in no
\* bucket, so above40 + under40 + unknownAge = firstTimers.
C19_AgeBuckets ==
    (cpc \in {"saving", "inserting"}) =>
        LET R == 1..Len(registrationDetails)
            firstTimer(r) == ~flags[r].isReturning
            IsNumber(r) ==
                /\ "age" \in DOMAIN registrationDetails[r]
                /\ LET t == registrationDetails[r].age
                       digits == IF Len(t) > 0 /\ t[1] = "-" THEN Tail(t) ELSE t
                   IN Len(digits) > 0 /\ \A i \in 1..Len(digits) : IsDigit(digits[i])
            Value(r) ==
                LET t == registrationDetails[r].age
                IN IF t[1] = "-" THEN 0 - digitsValue(Tail(t), 0) ELSE digitsValue(t, 0)
        IN /\ stats.above40 =
                Count({r \in R : firstTimer(r) /\ IsNumber(r) /\ Value(r) >= AgeThreshold})
           /\ stats.under40 =
                Count({r \in R : firstTimer(r) /\ IsNumber(r)
                                   /\ Value(r) > 0 /\ Value(r) < AgeThreshold})
           /\ stats.unknownAge =
                Count({r \in R : firstTimer(r) /\ (~IsNumber(r) \/ Value(r) <= 0)})
           /\ stats.above40 + stats.under40 + stats.unknownAge = stats.firstTimers

\* C19 witness: a first-timer with a negative age is counted unknown, and a returning
\* participant aged 45 is counted in no bucket.
C19_Witness ==
    /\ cpc = "saving" /\ Len(registrationDetails) = 2
    /\ Field(registrationDetails[1], "age") = tAgeNegative /\ ~flags[1].isReturning
    /\ Field(registrationDetails[2], "age") = tAge45 /\ flags[2].isReturning
    /\ stats.unknownAge = 1 /\ stats.above40 = 0 /\ stats.under40 = 0
    /\ stats.firstTimers = 1

(***************************************************************************)
(* Properties of the registration trend and the referral histogram         *)
(***************************************************************************)

\* C12: over stored registrations that all carry a date, bucket k of the referral
\* histogram counts the registrations dated before 2025-10-09 with exactly k invitee
\* slots holding a non-empty name, phone or email; those dated 2025-10-09 or later
\* change no bucket.
C12_ReferralHistogram ==
    (/\ cpc \in {"saving", "inserting"}
     /\ \A r \in 1..Len(registrationDetails) :
           IsTransDateShaped(registrationDetails[r].Trans_Date)) =>
        \A k \in 0..MaxInvitees :
            stats.referralStats[k] =
                Count({r \in 1..Len(registrationDetails) :
                         /\ compareText(isoDateOf(registrationDetails[r].Trans_Date),
                                        referralCutoffDate) < 0
                         /\ inviteeCountOf(registrationDetails[r]) = k})

\* C13: a registration of the current form (full_name populated, no referral fields)
\* is counted in no bucket of the referral histogram whatever its transaction date:
\* the buckets together count at most the registrations of the other form.
C13_CurrentFormExcluded ==
    (cpc \in {"saving", "inserting"}) =>
        stats.referralStats[0] + stats.referralStats[1] + stats.referralStats[2]
          + stats.referralStats[3] + stats.referralStats[4] + stats.referralStats[5]
        <= Count({r \in 1..Len(registrationDetails) :
                    ~(/\ registrationDetails[r].full_name # Str0
                      /\ inviteeCountOf(registrationDetails[r]) = 0)})

\* C14: a registration whose transaction date is not of the shape DD-MM-YYYY HH:MM:SS
\* contributes to no entry of the daily trend and is still counted in total: every
\* entry is the date of some registration with a date of that shape and counts the
\* registrations of that date.
C14_UnparsableDateNotInTrend ==
    (cpc \in {"saving", "inserting"}) =>
        /\ stats.totalRegistrations = Len(registrationDetails)
        /\ \A e \in 1..Len(stats.registrationTrends) :
              stats.registrationTrends[e].count =
                  Count({r \in 1..Len(registrationDetails) :
                           /\ IsTransDateShaped(registrationDetails[r].Trans_Date)
                           /\ isoDateOf(registrationDetails[r].Trans_Date)
                                 = stats.registrationTrends[e]._id})

(***************************************************************************)
(* Properties of the scraper process                                       *)
(***************************************************************************)

\* C28: a save whose registration list is empty (the scrape failed or parsed nothing)
\* leaves registrationDetails as it was, and a save whose event list is empty leaves
\* eventSummaries as it was: a collection changes only in a step of a process that holds
\* a non-empty list for it.
C28_EmptyScrapeKeepsStore ==
    [][/\ registrationDetails' # registrationDetails =>
             \E p \in DOMAIN procs : /\ procs'[p].pc # procs[p].pc
                                     /\ procs[p].pc \in SavePositions
                                     /\ Len(procs[p].registrations) > 0
       /\ eventSummaries' # eventSummaries =>
             \E p \in DOMAIN procs : /\ procs'[p].pc # procs[p].pc
                                     /\ procs[p].pc \in SavePositions
                                     /\ Len(procs[p].events) > 0
    ]_vars

\* C28 witness: the registration scrape of the process failed and its event list is
\* empty; saveToDatabase has returned and both collections still hold what was stored.
C28_Witness ==
    /\ procs[1].pc = "saved"
    /\ "scrapeRegistrationDetails" \in procs[1].failed
    /\ procs[1].registrations = << >> /\ procs[1].events = << >>
    /\ registrationDetails # << >> /\ eventSummaries # << >>

\* the steps of a process are logged in program order
InProgramOrder(proc) ==
    /\ Len(proc.log) <= Len(ProcessOrder)
    /\ \A i \in 1..Len(proc.log) : proc.log[i] = ProcessOrder[i]
    /\ proc.pc \in SavePositions =>
          Len(proc.log) = 3
    /\ proc.pc = "stats" => Len(proc.log) = 5

storedIds(collection) == [i \in 1..Len(collection) |-> collection[i].registrationId]

\* C30: when two overlapping processes have both finished their save with records to
\* store, registrationDetails holds the records of exactly one of them, whatever the
\* interleaving of their deleteMany and insertMany: it is not empty and no
\* registrationId is stored twice.
C30_OverlapKeepsOneRun ==
    (/\ DOMAIN procs = {1, 2}
     /\ \A p \in DOMAIN procs : /\ procs[p].pc \in {"saved", "stats", "exited"}
                                /\ Len(procs[p].log) >= 4
                                /\ Len(procs[p].registrations) > 0)
    => /\ registrationDetails # << >>
       /\ \E p \in DOMAIN procs : registrationDetails = procs[p].registrations
       /\ \A i \in 1..Len(registrationDetails) : \A j \in 1..Len(registrationDetails) :
             storedIds(registrationDetails)[i] = storedIds(registrationDetails)[j] => i = j

====
